---- MODULE Spec2Model ----
(***************************************************************************)
(* A model of the data-cleaning core of the Cosmos trigeminal-neuralgia    *)
(* pipeline (src/src/utils/data_cleaning.py, src/src/config/               *)
(* analysis_config.py).                                                    *)
(*                                                                         *)
(* A DataFrame is a record [columns |-> <<header, ...>>, data |-> <<column,*)
(* ...>>]: data[i] is the sequence of the cells of the column whose header *)
(* is columns[i].  A cell is one of                                        *)
(*     [num |-> n]      a Python number,                                   *)
(*     [str |-> s]      a Python str,                                      *)
(*     [nan |-> TRUE]   a blank cell (NaN).                                *)
(* A str that the code parses or edits character by character is a         *)
(* sequence of one-character strings; a str that the code only compares    *)
(* and looks up (a category label, a state name) is a TLA+ string.         *)
(***************************************************************************)
EXTENDS Integers, Sequences, FiniteSets, TLC

VARIABLES
    pc,               \* the position of the script: which call has returned
    df,               \* the table the caller passes
    columns,          \* the caller's `columns` argument of impute_small_cells
    result,           \* the table the first call returned
    result2,          \* the table returned by calling again on `result`
    STATE_TO_REGION,  \* the module-level dict of analysis_config.py
    build_pos,        \* how many (region, state) pairs the building loop has done
    df_meds,          \* the medication table main() loads
    df_procs,         \* the procedure table main() loads
    args              \* the arguments of a call of a statistics function

vars == <<pc, df, columns, result, result2, STATE_TO_REGION, build_pos,
          df_meds, df_procs, args>>

(***************************************************************************)
(* Bounds of the model.                                                    *)
(***************************************************************************)
MaxRows == 2

MaxLen == 4

MaxStateRows == 2

\* The rows of a procedure table.
MaxProcRows == 1

\* The largest total n, and the largest count x, of a call of a statistical
\* helper.
MaxTotal == 13

\* The largest p-value, in ten-thousandths, of the run of small p-values
\* given to format_pvalue.
MaxPValue == 100

\* The rows of a table the state bar charts are drawn from.
MaxBarRows == 2

\* The entries of TN_CONFIG.medications, and of TN_CONFIG.procedures, that a
\* mapping given to PipelineConfig is drawn from.
MaxMappings == 3

\* The largest total of the one jurisdiction of the sentinel scenario.
MaxJurisdictionTotal == 60

\* The rows of an export whose jurisdiction column is forward filled.
MaxFillRows == 4

\* The largest expected total given to validate_totals.
MaxExpectedTotal == 24

\* The jurisdictions that a table of the whole roster may lack.
MaxDropped == 3

(***************************************************************************)
(* Python values.                                                          *)
(***************************************************************************)
None == [none |-> TRUE]

NaN == [nan |-> TRUE]

Num(n) == [num |-> n]

Str(s) == [str |-> s]

IsNum(cell) == DOMAIN cell = {"num"}

IsStr(cell) == DOMAIN cell = {"str"}

IsNaN(cell) == DOMAIN cell = {"nan"}

\* The argument of a call that takes Optional[List[str]].
List(l) == [list |-> l]

Range(s) == {s[i] : i \in DOMAIN s}

SeqsOfLen(S, n) == [1..n -> S]

(***************************************************************************)
(* analysis_config.py: the imputation settings.                            *)
(***************************************************************************)
SMALL_CELL_VALUE == <<"1", "0", " ", "o", "r", " ", "f", "e", "w", "e", "r">>

SMALL_CELL_MIDPOINT == 5

\* A plausible slip: the upper end of the suppressed range, twice its
\* midpoint.
SMALL_CELL_UPPER_END == 2 * SMALL_CELL_MIDPOINT

SMALL_CELL_IMPUTATION == 5

(***************************************************************************)
(* analysis_config.py: the census regions and the loop that builds         *)
(* STATE_TO_REGION when the module is imported.  STATE_TO_REGION is a      *)
(* function from the state names set so far to region names.               *)
(***************************************************************************)
CENSUS_REGIONS ==
    << <<"East North Central",
         <<"Ohio", "Michigan", "Illinois", "Wisconsin", "Indiana">> >>,
       <<"West North Central",
         <<"Minnesota", "Iowa", "Missouri", "Kansas", "Nebraska",
           "North Dakota", "South Dakota">> >>,
       <<"Middle Atlantic",
         <<"Pennsylvania", "New York", "New Jersey">> >>,
       <<"New England",
         <<"Massachusetts", "Connecticut", "Maine", "New Hampshire",
           "Rhode Island", "Vermont">> >>,
       <<"South Atlantic",
         <<"Florida", "North Carolina", "Virginia", "South Carolina",
           "Georgia", "Maryland", "West Virginia", "Delaware",
           "District of Columbia">> >>,
       <<"East South Central",
         <<"Kentucky", "Mississippi", "Tennessee", "Alabama">> >>,
       <<"West South Central",
         <<"Texas", "Louisiana", "Arkansas", "Oklahoma">> >>,
       <<"Pacific",
         <<"California", "Oregon", "Washington", "Hawaii", "Alaska">> >>,
       <<"Mountain",
         <<"Colorado", "Arizona", "Utah", "Idaho", "Nevada", "Montana",
           "New Mexico", "Wyoming">> >> >>

\* The (region, state) pairs in the order the nested loops of lines 186-188
\* visit them.
RECURSIVE RegionStatePairs(_)
RegionStatePairs(regions) ==
    IF Len(regions) = 0 THEN <<>>
    ELSE [i \in DOMAIN Head(regions)[2] |-> <<Head(regions)[1], Head(regions)[2][i]>>]
             \o RegionStatePairs(Tail(regions))

LoopPairs == RegionStatePairs(CENSUS_REGIONS)

\* d[key] = value on a dict held as a function.
DictSet(d, key, value) ==
    [k \in DOMAIN d \cup {key} |-> IF k = key THEN value ELSE d[k]]

\* A plausible slip: key and value exchanged in the assignment.
AssignRegionSwapped(d, region, state) == DictSet(d, region, state)

\* Line 188: STATE_TO_REGION[state] = region
AssignRegion(d, region, state) == DictSet(d, state, region)

\* The dict once the loop has run and analysis_config.py is imported, which
\* is what data_cleaning.py sees: each state listed maps to the region of the
\* last pair that names it (a later assignment overwrites an earlier one).
ImportedStateToRegion ==
    [st \in {LoopPairs[i][2] : i \in DOMAIN LoopPairs} |->
        LoopPairs[CHOOSE i \in DOMAIN LoopPairs :
                      /\ LoopPairs[i][2] = st
                      /\ \A j \in DOMAIN LoopPairs : j > i => LoopPairs[j][2] # st][1]]

(***************************************************************************)
(* DataFrame access: `col in df.columns`, df[col], df[col] = series.       *)
(* Headers of one table are distinct (pandas allows duplicates; the        *)
(* exports this pipeline reads have none).                                 *)
(***************************************************************************)
HasColumn(d, col) == \E i \in DOMAIN d.columns : d.columns[i] = col

ColumnIndex(d, col) == CHOOSE i \in DOMAIN d.columns : d.columns[i] = col

GetColumn(d, col) == d.data[ColumnIndex(d, col)]

SetColumn(d, col, series) ==
    IF HasColumn(d, col)
    THEN [d EXCEPT !.data[ColumnIndex(d, col)] = series]
    ELSE [columns |-> Append(d.columns, col), data |-> Append(d.data, series)]

(***************************************************************************)
(* pandas: Series.replace(to_replace, value) with two scalars: a cell      *)
(* equal to to_replace becomes value, every other cell is kept.            *)
(***************************************************************************)
ReplaceCell(cell, to_replace, value) ==
    IF IsStr(cell) /\ cell.str = to_replace THEN Num(value) ELSE cell

SeriesReplace(series, to_replace, value) ==
    [i \in DOMAIN series |-> ReplaceCell(series[i], to_replace, value)]

(***************************************************************************)
(* pandas: pd.to_numeric(series, errors='ignore').  A str is parsed as a   *)
(* decimal numeral; a number and a blank are kept; when one cell cannot be *)
(* parsed the WHOLE input is returned as it was (errors='ignore').         *)
(* The numerals modelled are the unsigned digit strings.                   *)
(***************************************************************************)
Digits == <<"0", "1", "2", "3", "4", "5", "6", "7", "8", "9">>

IsDigit(c) == \E i \in DOMAIN Digits : Digits[i] = c

DigitValue(c) == (CHOOSE i \in DOMAIN Digits : Digits[i] = c) - 1

IsNumeral(s) == Len(s) > 0 /\ \A i \in DOMAIN s : IsDigit(s[i])

RECURSIVE ParseNumeral(_)
ParseNumeral(s) ==
    IF Len(s) = 0 THEN 0
    ELSE 10 * ParseNumeral(SubSeq(s, 1, Len(s) - 1)) + DigitValue(s[Len(s)])

Coercible(cell) == IsNum(cell) \/ IsNaN(cell) \/ (IsStr(cell) /\ IsNumeral(cell.str))

CoerceCell(cell) == IF IsStr(cell) THEN Num(ParseNumeral(cell.str)) ELSE cell

\* A plausible slip: errors='coerce'-like handling cell by cell, every cell that
\* parses converted and the others kept.
ToNumericPerCell(series) ==
    [i \in DOMAIN series |->
        IF Coercible(series[i]) THEN CoerceCell(series[i]) ELSE series[i]]

ToNumericIgnore(series) ==
    IF \A i \in DOMAIN series : Coercible(series[i])
    THEN [i \in DOMAIN series |-> CoerceCell(series[i])]
    ELSE series

(***************************************************************************)
(* data_cleaning.py: impute_small_cells.                                   *)
(***************************************************************************)
\* A plausible slip: the numeric conversion is tried before the replacement.
ImputeColumnSwapped(series, small_cell_value, imputation_value) ==
    SeriesReplace(ToNumericIgnore(series), small_cell_value, imputation_value)

\* A plausible slip: the Series returned by replace() is not assigned back.
ImputeColumnNoReplace(series, small_cell_value, imputation_value) ==
    ToNumericIgnore(series)

\* The body of the loop, lines 73 and 76.
ImputeColumn(series, small_cell_value, imputation_value) ==
    ToNumericIgnore(SeriesReplace(series, small_cell_value, imputation_value))

\* A plausible slip: a name the table lacks ends the loop instead of being skipped.
RECURSIVE ImputeLoopStopAtMissing(_, _, _, _)
ImputeLoopStopAtMissing(d, cols, small_cell_value, imputation_value) ==
    IF Len(cols) = 0 \/ ~HasColumn(d, Head(cols)) THEN d
    ELSE ImputeLoopStopAtMissing(
             SetColumn(d, Head(cols),
                 ImputeColumn(GetColumn(d, Head(cols)), small_cell_value,
                              imputation_value)),
             Tail(cols), small_cell_value, imputation_value)

\* The loop of lines 70-76 over the list `cols`.
RECURSIVE ImputeLoop(_, _, _, _)
ImputeLoop(d, cols, small_cell_value, imputation_value) ==
    IF Len(cols) = 0 THEN d
    ELSE LET col == Head(cols)
             d1 == IF HasColumn(d, col)
                   THEN SetColumn(d, col,
                            ImputeColumn(GetColumn(d, col), small_cell_value,
                                         imputation_value))
                   ELSE d
         IN ImputeLoop(d1, Tail(cols), small_cell_value, imputation_value)

impute_small_cells(d, cols, small_cell_value, imputation_value) ==
    ImputeLoop(d, IF cols = None THEN d.columns ELSE cols.list,
               small_cell_value, imputation_value)

(***************************************************************************)
(* The inputs of the imputation runs.                                      *)
(***************************************************************************)
\* The sentinel followed by a blank: a cell that is NOT the sentinel.
NearSentinel == Append(SMALL_CELL_VALUE, " ")

ImputeCells ==
    { Num(0), Num(12), Str(SMALL_CELL_VALUE), Str(NearSentinel),
      Str(<<"1", "7">>), Str(<<"n", "/", "a">>), NaN }

OtherCells == { Str(SMALL_CELL_VALUE), Str(<<"1", "7">>) }

\* The table with the columns "count" and "total".
ImputeTable(a, b) == [columns |-> <<"count", "total">>, data |-> <<a, b>>]

\* "pct" is a header no input table has.
ImputeTargets ==
    { None, List(<<>>), List(<<"count">>), List(<<"total">>),
      List(<<"count", "total">>), List(<<"pct">>), List(<<"pct", "count">>),
      List(<<"count", "pct", "total">>), List(<<"count", "count">>) }

InitImpute ==
    /\ pc = "impute"
    /\ \E a \in SeqsOfLen(ImputeCells, MaxRows), b \in SeqsOfLen(OtherCells, MaxRows) :
           df = ImputeTable(a, b)
    /\ columns \in ImputeTargets
    /\ result = None
    /\ result2 = None
    /\ STATE_TO_REGION = ImportedStateToRegion
    /\ build_pos = Len(LoopPairs)
    /\ df_meds = None
    /\ df_procs = None
    /\ args = None

\* result = impute_small_cells(df, columns)
Impute ==
    /\ pc = "impute"
    /\ result' = impute_small_cells(df, columns, SMALL_CELL_VALUE, SMALL_CELL_IMPUTATION)
    /\ pc' = "imputed"
    /\ UNCHANGED <<df, columns, result2, STATE_TO_REGION, build_pos,
                 df_meds, df_procs, args>>

\* result2 = impute_small_cells(result, columns)
ImputeAgain ==
    /\ pc = "imputed"
    /\ result2' = impute_small_cells(result, columns, SMALL_CELL_VALUE, SMALL_CELL_IMPUTATION)
    /\ pc' = "reimputed"
    /\ UNCHANGED <<df, columns, result, STATE_TO_REGION, build_pos,
                 df_meds, df_procs, args>>

NextImpute == Impute \/ ImputeAgain

SpecImpute == InitImpute /\ [][NextImpute]_vars

(***************************************************************************)
(* Python str methods used by clean_column_names, on sequences of          *)
(* characters.                                                             *)
(***************************************************************************)
UpperCase == <<"A", "B", "C", "D", "E", "F", "G", "H", "I", "J", "K", "L", "M",
               "N", "O", "P", "Q", "R", "S", "T", "U", "V", "W", "X", "Y", "Z">>

LowerCase == <<"a", "b", "c", "d", "e", "f", "g", "h", "i", "j", "k", "l", "m",
               "n", "o", "p", "q", "r", "s", "t", "u", "v", "w", "x", "y", "z">>

IsUpper(c) == \E i \in DOMAIN UpperCase : UpperCase[i] = c

LowerChar(c) ==
    IF IsUpper(c)
    THEN LowerCase[CHOOSE i \in DOMAIN UpperCase : UpperCase[i] = c]
    ELSE c

\* s.lower()
StrLower(s) == [i \in DOMAIN s |-> LowerChar(s[i])]

\* s.replace(old, new) for a one-character old; new is a str (possibly empty).
RECURSIVE StrReplaceChar(_, _, _)
StrReplaceChar(s, old, new) ==
    IF Len(s) = 0 THEN <<>>
    ELSE (IF Head(s) = old THEN new ELSE <<Head(s)>>)
             \o StrReplaceChar(Tail(s), old, new)

\* '__' in s
HasDoubleUnderscore(s) ==
    \E i \in 1..(Len(s) - 1) : s[i] = "_" /\ s[i + 1] = "_"

\* s.replace('__', '_'): one left-to-right pass over non-overlapping matches.
RECURSIVE StrReplaceDouble(_)
StrReplaceDouble(s) ==
    IF Len(s) < 2 THEN s
    ELSE IF s[1] = "_" /\ s[2] = "_"
         THEN <<"_">> \o StrReplaceDouble(SubSeq(s, 3, Len(s)))
         ELSE <<s[1]>> \o StrReplaceDouble(Tail(s))

\* A plausible slip: one replace() call instead of the while loop.
CollapseOnce(s) == StrReplaceDouble(s)

\* while '__' in col_str: col_str = col_str.replace('__', '_')
RECURSIVE CollapseUnderscores(_)
CollapseUnderscores(s) ==
    IF HasDoubleUnderscore(s) THEN CollapseUnderscores(StrReplaceDouble(s)) ELSE s

\* s.strip('_')
RECURSIVE StripLeft(_)
StripLeft(s) == IF Len(s) > 0 /\ Head(s) = "_" THEN StripLeft(Tail(s)) ELSE s

RECURSIVE StripRight(_)
StripRight(s) ==
    IF Len(s) > 0 /\ s[Len(s)] = "_" THEN StripRight(SubSeq(s, 1, Len(s) - 1)) ELSE s

StrStrip(s) == StripRight(StripLeft(s))

\* str(n) for a non-negative int
RECURSIVE IntToStr(_)
IntToStr(n) ==
    IF n < 10 THEN <<Digits[n + 1]>>
    ELSE IntToStr(n \div 10) \o <<Digits[(n % 10) + 1]>>

\* str(col) for a header: a str is itself, a blank header is 'nan'.
PyStr(col) ==
    IF IsStr(col) THEN col.str
    ELSE IF IsNum(col) THEN IntToStr(col.num)
    ELSE <<"n", "a", "n">>

(***************************************************************************)
(* data_cleaning.py: clean_column_names.                                   *)
(***************************************************************************)
\* Lines 103-110: lower-casing and the seven one-character replacements.
ReplaceSpecials(s) ==
    LET s1 == StrLower(s)
        s2 == StrReplaceChar(s1, " ", <<"_">>)
        s3 == StrReplaceChar(s2, "-", <<"_">>)
        s4 == StrReplaceChar(s3, "/", <<"_">>)
        s5 == StrReplaceChar(s4, "(", <<>>)
        s6 == StrReplaceChar(s5, ")", <<>>)
        s7 == StrReplaceChar(s6, ",", <<>>)
    IN  StrReplaceChar(s7, ".", <<>>)

\* The body of the loop, lines 100-116: one header to its new name.
CleanName(col) == Str(StrStrip(CollapseUnderscores(ReplaceSpecials(PyStr(col)))))

\* Lines 95-119: the table with every header replaced, the data kept.
clean_column_names(d) ==
    [d EXCEPT !.columns = [i \in DOMAIN d.columns |-> CleanName(d.columns[i])]]

(***************************************************************************)
(* The inputs of the header runs: every header of up to MaxLen characters  *)
(* over HeaderChars as a one-column table, and two-column tables of        *)
(* sample headers (a str, a number, a blank).                              *)
(***************************************************************************)
HeaderChars == {"A", "b", " ", "\t", "\n", "-", "/", "(", ")", ",", ".", "_"}

\* "Rx - N", 12 and a blank header cell.
SampleHeaders == { Str(<<"R", "x", " ", "-", " ", "N">>), Num(12), NaN }

\* A table of one row with the given headers.
NameTable(headers) ==
    [columns |-> headers, data |-> [i \in DOMAIN headers |-> <<Num(i)>>]]

InitNames ==
    /\ pc = "clean"
    /\ \/ \E n \in 0..MaxLen : \E h \in SeqsOfLen(HeaderChars, n) :
              df = NameTable(<<Str(h)>>)
       \/ \E g \in SampleHeaders, h \in SampleHeaders :
              df = NameTable(<<g, h>>)
    /\ columns = None
    /\ result = None
    /\ result2 = None
    /\ STATE_TO_REGION = ImportedStateToRegion
    /\ build_pos = Len(LoopPairs)
    /\ df_meds = None
    /\ df_procs = None
    /\ args = None

\* result = clean_column_names(df)
CleanNames ==
    /\ pc = "clean"
    /\ result' = clean_column_names(df)
    /\ pc' = "cleaned"
    /\ UNCHANGED <<df, columns, result2, STATE_TO_REGION, build_pos,
                 df_meds, df_procs, args>>

\* result2 = clean_column_names(result)
CleanNamesAgain ==
    /\ pc = "cleaned"
    /\ result2' = clean_column_names(result)
    /\ pc' = "recleaned"
    /\ UNCHANGED <<df, columns, result, STATE_TO_REGION, build_pos,
                 df_meds, df_procs, args>>

NextNames == CleanNames \/ CleanNamesAgain

SpecNames == InitNames /\ [][NextNames]_vars

(***************************************************************************)
(* pandas: Series.ffill() and Series.replace(dict).  A dict is the         *)
(* sequence of its <<key, value>> items in insertion order; its keys are   *)
(* distinct.                                                               *)
(***************************************************************************)
\* A plausible slip: ffill(limit=1), a blank cell takes the cell right above
\* it in the export.
FFillLimitOne(series) ==
    [i \in DOMAIN series |->
        IF IsNaN(series[i]) /\ i > 1 THEN series[i - 1] ELSE series[i]]

\* Series.ffill(): a blank cell takes the nearest non-blank cell above it.
RECURSIVE FFill(_)
FFill(series) ==
    IF Len(series) <= 1 THEN series
    ELSE LET front == FFill(SubSeq(series, 1, Len(series) - 1))
             last  == series[Len(series)]
         IN  Append(front, IF IsNaN(last) THEN front[Len(front)] ELSE last)

DictHasKey(dict, key) == \E i \in DOMAIN dict : dict[i][1] = key

DictGet(dict, key) == dict[CHOOSE i \in DOMAIN dict : dict[i][1] = key][2]

\* A plausible slip: Series.map(dict), which blanks every label that is no key.
MapCellByDict(cell, dict) ==
    IF IsStr(cell) /\ DictHasKey(dict, cell.str)
    THEN Str(DictGet(dict, cell.str))
    ELSE NaN

\* Series.replace(dict), one cell: a key becomes its value, the rest is kept.
ReplaceCellByDict(cell, dict) ==
    IF IsStr(cell) /\ DictHasKey(dict, cell.str)
    THEN Str(DictGet(dict, cell.str))
    ELSE cell

SeriesReplaceDict(series, dict) ==
    [i \in DOMAIN series |-> ReplaceCellByDict(series[i], dict)]

(***************************************************************************)
(* data_cleaning.py: clean_medication_data and clean_procedure_data.       *)
(***************************************************************************)
medication_mapping ==
    << <<"Carbmazapine or Oxcarbmazapine", "Carbamazepine/Oxcarbazepine">>,
       <<"Carbamazepine or Oxcarbazepine", "Carbamazepine/Oxcarbazepine">>,
       <<"baclofen", "Baclofen">>,
       <<"gabapentin", "Gabapentin">>,
       <<"lamotrigine", "Lamotrigine">>,
       <<"pregabalin", "Pregabalin">>,
       <<"onabotulinumtoxinA", "OnabotulinumtoxinA">>,
       <<"None of the above", "None of the above">> >>

\* Lines 222-224 and 282-284: forward fill of the state column, when present.
FillStates(d, state_col) ==
    IF HasColumn(d, state_col)
    THEN SetColumn(d, state_col, FFill(GetColumn(d, state_col)))
    ELSE d

\* Lines 220-252.  The count column inferred in lines 227-235 is a local that
\* nothing reads afterwards; it has no part in the returned table.
clean_medication_data(d, state_col, medication_col) ==
    LET d1 == FillStates(d, state_col)
    IN  IF HasColumn(d1, medication_col)
        THEN SetColumn(d1, medication_col,
                 SeriesReplaceDict(GetColumn(d1, medication_col), medication_mapping))
        ELSE d1

\* A plausible slip: 'Glycerol Rhizotomy' shortened to the label of CPT 61790.
procedure_mapping_colliding ==
    << <<"CRNEC SOPL EXPLORATION/DECOMPRESSION CRANIAL NRV 61458", "MVD">>,
       <<"SRS 61796 and 98", "SRS">>,
       <<"CREATE LESION STRTCTC PRQ NEUROLYTIC GASSERIAN 61790", "Rhizotomy">>,
       <<"Glycerol Rhizotomy", "Rhizotomy">>,
       <<"CHEMODNRVTJ MUSC MUSC INNERVATED FACIAL NRV UNIL 64612", "Botox">>,
       <<"None of the above", "None of the above">> >>

procedure_mapping ==
    << <<"CRNEC SOPL EXPLORATION/DECOMPRESSION CRANIAL NRV 61458", "MVD">>,
       <<"SRS 61796 and 98", "SRS">>,
       <<"CREATE LESION STRTCTC PRQ NEUROLYTIC GASSERIAN 61790", "Rhizotomy">>,
       <<"Glycerol Rhizotomy", "Glycerol Rhizotomy">>,
       <<"CHEMODNRVTJ MUSC MUSC INNERVATED FACIAL NRV UNIL 64612", "Botox">>,
       <<"None of the above", "None of the above">> >>

\* Lines 298-302: one header to its new name.
RenameColumn(col) ==
    IF DictHasKey(procedure_mapping, col) THEN DictGet(procedure_mapping, col) ELSE col

\* Lines 280-305.
clean_procedure_data(d, state_col) ==
    LET d1 == FillStates(d, state_col)
    IN  [d1 EXCEPT !.columns = [i \in DOMAIN d1.columns |-> RenameColumn(d1.columns[i])]]

(***************************************************************************)
(* The inputs of the label runs.                                           *)
(***************************************************************************)
STATE_COL == "State of Residence"

MEDICATION_COL == "All Medications"

DictKeys(dict) == {dict[i][1] : i \in DOMAIN dict}

DictValues(dict) == {dict[i][2] : i \in DOMAIN dict}

StateCells == { Str("Alabama"), Str("Alaska"), NaN }

\* Every raw and every canonical label, two labels the table does not know
\* (one differing from a key by case only), and a blank.
MedicationCells ==
    { Str(l) : l \in DictKeys(medication_mapping) \cup DictValues(medication_mapping)
                     \cup {"Aspirin", "BACLOFEN"} }
    \cup {NaN}

CountColumn(n) == [i \in 1..n |-> Num(12)]

\* A medication export, and a table that has neither of the two columns.
MedicationTable(st, med) ==
    [columns |-> <<STATE_COL, MEDICATION_COL, "Patients">>,
     data |-> <<st, med, CountColumn(Len(st))>>]

OtherTable(st) ==
    [columns |-> <<"State", "Patients">>, data |-> <<st, CountColumn(Len(st))>>]

ProcedureHeaders ==
    DictKeys(procedure_mapping) \cup DictValues(procedure_mapping) \cup {"Total"}

KnownProcedureColumns == [i \in DOMAIN procedure_mapping |-> procedure_mapping[i][1]]

\* A procedure export: the state column, then the given procedure columns.
ProcedureTable(st, headers) ==
    [columns |-> <<STATE_COL>> \o headers,
     data |-> <<st>> \o [i \in DOMAIN headers |-> CountColumn(Len(st))]]

\* Two distinct procedure headers, or every known one.
ProcedureHeaderLists ==
    { <<p[1], p[2]>> : p \in {q \in ProcedureHeaders \X ProcedureHeaders : q[1] # q[2]} }
    \cup {KnownProcedureColumns}

InitLabels ==
    /\ \E n \in 1..MaxRows : \E st \in SeqsOfLen(StateCells, n) :
           \/ /\ pc = "medication"
              /\ \/ \E med \in SeqsOfLen(MedicationCells, n) :
                        df = MedicationTable(st, med)
                 \/ df = OtherTable(st)
           \/ /\ pc = "procedure"
              /\ \E headers \in ProcedureHeaderLists : df = ProcedureTable(st, headers)
    /\ columns = None
    /\ result = None
    /\ result2 = None
    /\ STATE_TO_REGION = ImportedStateToRegion
    /\ build_pos = Len(LoopPairs)
    /\ df_meds = None
    /\ df_procs = None
    /\ args = None

\* result = clean_medication_data(df)
CleanMedication ==
    /\ pc = "medication"
    /\ result' = clean_medication_data(df, STATE_COL, MEDICATION_COL)
    /\ pc' = "medication_cleaned"
    /\ UNCHANGED <<df, columns, result2, STATE_TO_REGION, build_pos,
                 df_meds, df_procs, args>>

\* result2 = clean_medication_data(result)
CleanMedicationAgain ==
    /\ pc = "medication_cleaned"
    /\ result2' = clean_medication_data(result, STATE_COL, MEDICATION_COL)
    /\ pc' = "medication_recleaned"
    /\ UNCHANGED <<df, columns, result, STATE_TO_REGION, build_pos,
                 df_meds, df_procs, args>>

\* result = clean_procedure_data(df)
CleanProcedure ==
    /\ pc = "procedure"
    /\ result' = clean_procedure_data(df, STATE_COL)
    /\ pc' = "procedure_cleaned"
    /\ UNCHANGED <<df, columns, result2, STATE_TO_REGION, build_pos,
                 df_meds, df_procs, args>>

\* result2 = clean_procedure_data(result)
CleanProcedureAgain ==
    /\ pc = "procedure_cleaned"
    /\ result2' = clean_procedure_data(result, STATE_COL)
    /\ pc' = "procedure_recleaned"
    /\ UNCHANGED <<df, columns, result, STATE_TO_REGION, build_pos,
                 df_meds, df_procs, args>>

NextLabels ==
    \/ CleanMedication
    \/ CleanMedicationAgain
    \/ CleanProcedure
    \/ CleanProcedureAgain

SpecLabels == InitLabels /\ [][NextLabels]_vars

(***************************************************************************)
(* data_cleaning.py: add_census_region.                                    *)
(***************************************************************************)
\* Series.map(dict), one cell: a key becomes its value, anything else blank.
MapCell(cell, d) ==
    IF IsStr(cell) /\ cell.str \in DOMAIN d THEN Str(d[cell.str]) ELSE NaN

\* Lines 186-188.
add_census_region(d, state_column, state_to_region) ==
    SetColumn(d, "census_region",
        [i \in DOMAIN GetColumn(d, state_column) |->
            MapCell(GetColumn(d, state_column)[i], state_to_region)])

(***************************************************************************)
(* The import of analysis_config.py, one loop step at a time, followed by  *)
(* one call of add_census_region on a table of the caller's.               *)
(***************************************************************************)
Roster == {LoopPairs[i][2] : i \in DOMAIN LoopPairs}

\* Every state of the regions, a territory no region lists, and a blank.
RegionStateCells == {Str(st) : st \in Roster \cup {"Puerto Rico"}} \cup {NaN}

RegionTable(st) == [columns |-> <<"state", "n">>, data |-> <<st, CountColumn(Len(st))>>]

InitGeo ==
    /\ pc = "import"
    /\ df = None
    /\ columns = None
    /\ result = None
    /\ result2 = None
    /\ STATE_TO_REGION = <<>>
    /\ build_pos = 0
    /\ df_meds = None
    /\ df_procs = None
    /\ args = None

\* One iteration of the inner loop, lines 187-188.
BuildStep ==
    /\ pc = "import"
    /\ build_pos < Len(LoopPairs)
    /\ STATE_TO_REGION' = AssignRegion(STATE_TO_REGION, LoopPairs[build_pos + 1][1],
                                       LoopPairs[build_pos + 1][2])
    /\ build_pos' = build_pos + 1
    /\ UNCHANGED <<pc, df, columns, result, result2, df_meds, df_procs, args>>

\* The loops are exhausted: the module is imported.
BuildDone ==
    /\ pc = "import"
    /\ build_pos = Len(LoopPairs)
    /\ pc' = "loaded"
    /\ UNCHANGED <<df, columns, result, result2, STATE_TO_REGION, build_pos,
                 df_meds, df_procs, args>>

\* result = add_census_region(df) for a table df of the caller's.
AddCensusRegion ==
    /\ pc = "loaded"
    /\ \E n \in 1..MaxStateRows : \E st \in SeqsOfLen(RegionStateCells, n) :
           /\ df' = RegionTable(st)
           /\ result' = add_census_region(RegionTable(st), "state", STATE_TO_REGION)
    /\ pc' = "regions_added"
    /\ UNCHANGED <<columns, result2, STATE_TO_REGION, build_pos,
                 df_meds, df_procs, args>>

NextGeo == BuildStep \/ BuildDone \/ AddCensusRegion

SpecGeo == InitGeo /\ [][NextGeo]_vars

(***************************************************************************)
(* pandas: Series.sum, and DataFrame.groupby(key).agg({col: 'sum'}) with   *)
(* the defaults sort=True, dropna=True: one row for each distinct key in   *)
(* sorted order, rows whose key is blank belong to no group.               *)
(***************************************************************************)
Raised(kind) == [raised |-> kind]

IsRaised(value) == DOMAIN value = {"raised"}

RECURSIVE SumCells(_, _)
SumCells(series, n) ==
    IF n = 0 THEN 0
    ELSE SumCells(series, n - 1) + (IF IsNum(series[n]) THEN series[n].num ELSE 0)

\* A plausible slip: the first cell stands for the whole group.
SeriesFirst(series) ==
    IF \E i \in DOMAIN series : IsNum(series[i])
    THEN series[CHOOSE i \in DOMAIN series :
                    IsNum(series[i]) /\ \A j \in 1..(i - 1) : ~IsNum(series[j])].num
    ELSE 0

\* Series.sum(): blanks are skipped.
SeriesSum(series) == SumCells(series, Len(series))

\* The region names in str order, the order in which groupby lists its keys.
SortedRegions ==
    <<"East North Central", "East South Central", "Middle Atlantic", "Mountain",
      "New England", "Pacific", "South Atlantic", "West North Central",
      "West South Central">>

GroupKeys(d, key) ==
    SelectSeq(SortedRegions,
              LAMBDA r : \E i \in DOMAIN GetColumn(d, key) : GetColumn(d, key)[i] = Str(r))

\* The cells of column col in the rows of group r.
GroupCells(d, key, r, col) ==
    [i \in DOMAIN GetColumn(d, col) |->
        IF GetColumn(d, key)[i] = Str(r) THEN GetColumn(d, col)[i] ELSE NaN]

GroupSum(d, key, r, col) == SeriesSum(GroupCells(d, key, r, col))

\* [col for col in cols if col in d.columns]
PresentColumns(d, cols) == SelectSeq(cols, LAMBDA col : HasColumn(d, col))

\* d.groupby(key).agg({col: 'sum' for col in cols}).reset_index()
GroupByAgg(d, key, cols) ==
    [columns |-> <<key>> \o cols,
     data |-> << [i \in DOMAIN GroupKeys(d, key) |-> Str(GroupKeys(d, key)[i])] >>
              \o [j \in DOMAIN cols |->
                     [i \in DOMAIN GroupKeys(d, key) |->
                         Num(GroupSum(d, key, GroupKeys(d, key)[i], cols[j]))]]]

(***************************************************************************)
(* Number formatting: round(x, k) and f"{x:.kf}" of a quotient num / den   *)
(* of two non-negative ints, den > 0, as digits.  Both round to the        *)
(* nearest, a tie to the even digit.                                       *)
(***************************************************************************)
RoundHalfEven(num, den) ==
    LET q == num \div den
        r == num % den
    IN  IF 2 * r > den \/ (2 * r = den /\ q % 2 = 1) THEN q + 1 ELSE q

\* The digits of scaled / 10^decimals with `decimals` places, decimals in 1..2.
FormatFixed(scaled, decimals) ==
    IF decimals = 1
    THEN IntToStr(scaled \div 10) \o <<".">> \o IntToStr(scaled % 10)
    ELSE IntToStr(scaled \div 100) \o <<".">> \o IntToStr((scaled \div 10) % 10)
             \o IntToStr(scaled % 10)

\* The second components of <<key, row>> pairs in descending order of key,
\* equal keys in the order they had (sort_values(ascending=False) on at most
\* nine rows).
RECURSIVE SortDescending(_)
SortDescending(pairs) ==
    IF Len(pairs) = 0 THEN <<>>
    ELSE LET best == CHOOSE i \in DOMAIN pairs :
                         /\ \A j \in DOMAIN pairs : pairs[j][1] <= pairs[i][1]
                         /\ \A j \in 1..(i - 1) : pairs[j][1] < pairs[i][1]
         IN  <<pairs[best][2]>>
                 \o SortDescending([k \in 1..(Len(pairs) - 1) |->
                                       IF k < best THEN pairs[k] ELSE pairs[k + 1]])

(***************************************************************************)
(* generate_publication_materials.py: create_table1.  The value returned   *)
(* is the list of rows up to the last region row; the four fixed rows      *)
(* after it (a blank, study period, data source, ICD-10 code) carry no     *)
(* data.  Totals stay below 1000, where f"{n:,}" writes no comma.          *)
(***************************************************************************)
\* Lines 102-104: one <<census_region, total, pct in tenths>> per region.
RegionData(d) ==
    LET total == SeriesSum(GetColumn(d, "total"))
        grouped == GroupByAgg(d, "census_region", <<"total">>)
    IN  SortDescending(
            [i \in DOMAIN GetColumn(grouped, "total") |->
                <<GetColumn(grouped, "total")[i].num,
                  <<GetColumn(grouped, "census_region")[i].str,
                    GetColumn(grouped, "total")[i].num,
                    RoundHalfEven(GetColumn(grouped, "total")[i].num * 1000, total)>> >>])

create_table1(d) ==
    LET total == SeriesSum(GetColumn(d, "total"))
        region_data == RegionData(d)
    IN  List(<< [Characteristic |-> "Total TN Patients", N |-> IntToStr(total),
                 Percentage |-> <<"1", "0", "0", ".", "0", "%">>],
                [Characteristic |-> "", N |-> <<>>, Percentage |-> <<>>],
                [Characteristic |-> "Census Region", N |-> <<>>, Percentage |-> <<>>] >>
             \o [i \in DOMAIN region_data |->
                    [Characteristic |-> region_data[i][1],
                     N |-> IntToStr(region_data[i][2]),
                     Percentage |-> FormatFixed(region_data[i][3], 1) \o <<"%">>]])

(***************************************************************************)
(* generate_publication_materials.py: create_table3.                       *)
(***************************************************************************)
med_cols == <<"carbamazepine_oxcarbazepine", "gabapentin", "pregabalin", "baclofen">>

proc_cols == <<"mvd", "srs", "rhizotomy">>

\* Lines 221-230: one of the two aggregations.
RegionAggregate(d, cols) ==
    GroupByAgg(d, "census_region", Append(PresentColumns(d, cols), "total"))

\* f"{row[col] / row['total'] * 100:.{decimals}f}" for every listed column
\* the input has, row i of an aggregate.
Rates(agg, i, cols, decimals) ==
    [j \in DOMAIN cols |->
        FormatFixed(RoundHalfEven(GetColumn(agg, cols[j])[i].num
                                      * (IF decimals = 1 THEN 1000 ELSE 10000),
                                  GetColumn(agg, "total")[i].num),
                    decimals)]

\* Line 235: the row of region_procs for a region; .iloc[0] of an empty
\* selection raises IndexError.
ProcRow(region_procs, region) ==
    CHOOSE i \in DOMAIN GetColumn(region_procs, "census_region") :
        GetColumn(region_procs, "census_region")[i] = region

create_table3(meds, procs) ==
    LET region_meds == RegionAggregate(meds, med_cols)
        region_procs == RegionAggregate(procs, proc_cols)
        regions == GetColumn(region_meds, "census_region")
        Entry(i) ==
            [census_region |-> regions[i].str,
             n_patients |-> IntToStr(GetColumn(region_meds, "total")[i].num),
             med_rates |-> Rates(region_meds, i, PresentColumns(meds, med_cols), 1),
             proc_rates |-> Rates(region_procs, ProcRow(region_procs, regions[i]),
                                  PresentColumns(procs, proc_cols), 2)]
    IN  IF \E i \in DOMAIN regions :
               \A k \in DOMAIN GetColumn(region_procs, "census_region") :
                   GetColumn(region_procs, "census_region")[k] # regions[i]
        THEN Raised("IndexError")
        \* Line 256: a frame built from no rows has no 'N Patients' column.
        ELSE IF Len(regions) = 0 THEN Raised("KeyError")
        ELSE List(SortDescending([i \in DOMAIN regions |->
                                     <<ParseNumeral(Entry(i).n_patients), Entry(i)>>]))

(***************************************************************************)
(* data_cleaning.py: check_missing_states.                                 *)
(***************************************************************************)
\* The keys of STATE_TO_REGION in str order.
SortedStates ==
    <<"Alabama", "Alaska", "Arizona", "Arkansas", "California",
      "Colorado", "Connecticut", "Delaware", "District of Columbia",
      "Florida", "Georgia", "Hawaii", "Idaho", "Illinois", "Indiana",
      "Iowa", "Kansas", "Kentucky", "Louisiana", "Maine", "Maryland",
      "Massachusetts", "Michigan", "Minnesota", "Mississippi",
      "Missouri", "Montana", "Nebraska", "Nevada", "New Hampshire",
      "New Jersey", "New Mexico", "New York", "North Carolina",
      "North Dakota", "Ohio", "Oklahoma", "Oregon", "Pennsylvania",
      "Rhode Island", "South Carolina", "South Dakota", "Tennessee",
      "Texas", "Utah", "Vermont", "Virginia", "Washington",
      "West Virginia", "Wisconsin", "Wyoming">>

\* A plausible slip: the list is not sorted, the missing states come in the
\* order of the regions of CENSUS_REGIONS.
MissingInRegionOrder(d, state_column, state_to_region) ==
    SelectSeq([i \in DOMAIN LoopPairs |-> LoopPairs[i][2]],
              LAMBDA st : /\ st \in DOMAIN state_to_region
                          /\ \A i \in DOMAIN GetColumn(d, state_column) :
                                 GetColumn(d, state_column)[i] # Str(st))

\* sorted(list(set(state_to_region) - set(df[state_column].dropna().unique())))
check_missing_states(d, state_column, state_to_region) ==
    SelectSeq(SortedStates,
              LAMBDA st : /\ st \in DOMAIN state_to_region
                          /\ \A i \in DOMAIN GetColumn(d, state_column) :
                                 GetColumn(d, state_column)[i] # Str(st))

(***************************************************************************)
(* The region tables of main(): the two jurisdiction tables are loaded     *)
(* with their census_region column, then the tables are made.  Every count *)
(* of a total column is positive, as it is after imputation.               *)
(***************************************************************************)
MedsStateCells == {Str("Alabama"), Str("Kentucky"), Str("Ohio"), Str("Puerto Rico")}

ProcsStateCells == {Str("Alabama"), NaN}

\* The <<gabapentin, total>> counts of one row.
MedsCounts == {<<0, 5>>, <<5, 12>>}

MedsTable(st, counts, cols) ==
    [columns |-> <<"state">> \o cols,
     data |-> <<st>> \o [j \in DOMAIN cols |->
                            [i \in DOMAIN st |->
                                Num(counts[i][IF cols[j] = "total" THEN 2 ELSE 1])]]]

ProcsTable(st) ==
    [columns |-> <<"state", "mvd", "total">>,
     data |-> <<st, [i \in DOMAIN st |-> Num(SMALL_CELL_IMPUTATION)],
                CountColumn(Len(st))>>]

InitRegion ==
    /\ pc = "start"
    /\ df = None
    /\ columns = None
    /\ result = None
    /\ result2 = None
    /\ STATE_TO_REGION = ImportedStateToRegion
    /\ build_pos = Len(LoopPairs)
    /\ df_meds = None
    /\ df_procs = None
    /\ args = None

\* The two tables get their census_region column.
LoadData ==
    /\ pc = "start"
    /\ \E n \in 1..MaxStateRows, m \in 1..MaxProcRows :
       \E st \in SeqsOfLen(MedsStateCells, n), counts \in SeqsOfLen(MedsCounts, n),
          cols \in {<<"gabapentin", "total">>, <<"total">>},
          pst \in SeqsOfLen(ProcsStateCells, m) :
           /\ df_meds' = add_census_region(MedsTable(st, counts, cols), "state",
                                           STATE_TO_REGION)
           /\ df_procs' = add_census_region(ProcsTable(pst), "state", STATE_TO_REGION)
    /\ pc' = "loaded_data"
    /\ UNCHANGED <<df, columns, result, result2, STATE_TO_REGION, build_pos, args>>

\* result2 = check_missing_states(df_meds)
CheckMissingStates ==
    /\ pc = "loaded_data"
    /\ result2 = None
    /\ result2' = List(check_missing_states(df_meds, "state", STATE_TO_REGION))
    /\ UNCHANGED <<pc, df, columns, result, STATE_TO_REGION, build_pos,
                   df_meds, df_procs, args>>

\* result = create_table1(df_meds)
CreateTable1 ==
    /\ pc = "loaded_data"
    /\ result' = create_table1(df_meds)
    /\ pc' = "table1"
    /\ UNCHANGED <<df, columns, result2, STATE_TO_REGION, build_pos,
                   df_meds, df_procs, args>>

\* result = create_table3(df_meds, df_procs)
CreateTable3 ==
    /\ pc = "loaded_data"
    /\ result' = create_table3(df_meds, df_procs)
    /\ pc' = "table3"
    /\ UNCHANGED <<df, columns, result2, STATE_TO_REGION, build_pos,
                   df_meds, df_procs, args>>

NextRegion == LoadData \/ CheckMissingStates \/ CreateTable1 \/ CreateTable3

SpecRegion == InitRegion /\ [][NextRegion]_vars

(***************************************************************************)
(* Python float (IEEE 754 binary64) arithmetic.  A natural number of any   *)
(* size is the sequence of its digits in base LimbBase, lowest first, with *)
(* no leading zero digit (zero is <<>>).  A finite float is                *)
(*     [sign |-> 0 or 1, man |-> significand, exp |-> exponent]            *)
(* of value (-1)^sign * man * 2^exp, where man is zero or has exactly      *)
(* SignificandBits bits.  Every operation gives the exact result rounded   *)
(* to the nearest float, a tie to the even significand.  The values of the *)
(* model stay far from the ends of the exponent range, so no operation     *)
(* overflows or gives a subnormal.                                         *)
(***************************************************************************)
LimbBits == 15

LimbBase == 2 ^ LimbBits

SignificandBits == 53

Max(a, b) == IF a >= b THEN a ELSE b

Min(a, b) == IF a <= b THEN a ELSE b

Limb(a, i) == IF i \in DOMAIN a THEN a[i] ELSE 0

\* a without its leading zero digits.
BigNorm(a) ==
    SubSeq(a, 1, CHOOSE k \in 0..Len(a) :
                     /\ k = 0 \/ a[k] # 0
                     /\ \A j \in (k + 1)..Len(a) : a[j] = 0)

\* An int below LimbBase^3.
BigFromInt(k) ==
    BigNorm(<<k % LimbBase, (k \div LimbBase) % LimbBase, k \div (LimbBase * LimbBase)>>)

\* -1, 0 or 1 as a < b, a = b or a > b.
BigCmp(a, b) ==
    IF \A i \in 1..Max(Len(a), Len(b)) : Limb(a, i) = Limb(b, i) THEN 0
    ELSE LET top == CHOOSE i \in 1..Max(Len(a), Len(b)) :
                        /\ Limb(a, i) # Limb(b, i)
                        /\ \A j \in (i + 1)..Max(Len(a), Len(b)) : Limb(a, j) = Limb(b, j)
         IN  IF Limb(a, top) < Limb(b, top) THEN -1 ELSE 1

\* The carry into digit i of a + b: some lower digit pair overflows and every
\* pair between passes a carry on.
CarryIn(a, b, i) ==
    IF \E j \in 1..(i - 1) :
           /\ Limb(a, j) + Limb(b, j) >= LimbBase
           /\ \A k \in (j + 1)..(i - 1) : Limb(a, k) + Limb(b, k) = LimbBase - 1
    THEN 1 ELSE 0

BigAdd(a, b) ==
    BigNorm([i \in 1..(Max(Len(a), Len(b)) + 1) |->
                (Limb(a, i) + Limb(b, i) + CarryIn(a, b, i)) % LimbBase])

\* The borrow from digit i of a - b.
BorrowIn(a, b, i) ==
    IF \E j \in 1..(i - 1) :
           /\ Limb(a, j) < Limb(b, j)
           /\ \A k \in (j + 1)..(i - 1) : Limb(a, k) = Limb(b, k)
    THEN 1 ELSE 0

\* a - b for a >= b.
BigSub(a, b) ==
    BigNorm([i \in 1..Len(a) |->
                (Limb(a, i) - Limb(b, i) - BorrowIn(a, b, i) + LimbBase) % LimbBase])

\* a * LimbBase^n
ShiftLimbs(a, n) == [i \in 1..n |-> 0] \o a

\* a * k for one digit k: the low halves of the digit products plus their
\* high halves one place up.
BigMulSmall(a, k) ==
    BigAdd([i \in DOMAIN a |-> (a[i] * k) % LimbBase],
           ShiftLimbs([i \in DOMAIN a |-> (a[i] * k) \div LimbBase], 1))

RECURSIVE BigMulFrom(_, _, _)
BigMulFrom(a, b, i) ==
    IF i > Len(b) THEN <<>>
    ELSE BigAdd(ShiftLimbs(BigMulSmall(a, b[i]), i - 1), BigMulFrom(a, b, i + 1))

BigMul(a, b) == BigMulFrom(a, b, 1)

\* a * 2^s: digit i takes the low part of the shifted digit below it and
\* the high part of the one below that.
BigShl(a, s) ==
    BigNorm([i \in 1..(Len(a) + (s \div LimbBits) + 1) |->
                ((Limb(a, i - (s \div LimbBits)) * (2 ^ (s % LimbBits))) % LimbBase)
                    + ((Limb(a, i - (s \div LimbBits) - 1) * (2 ^ (s % LimbBits)))
                           \div LimbBase)])

\* a \div 2^s
BigShr(a, s) ==
    LET drop == s \div LimbBits
        r == s % LimbBits
    IN  BigNorm([i \in 1..Max(Len(a) - drop, 0) |->
                    (Limb(a, i + drop) \div (2 ^ r))
                        + (Limb(a, i + drop + 1) % (2 ^ r)) * (2 ^ (LimbBits - r))])

\* Bit i of a, bit 0 the lowest.
BigBit(a, i) == (Limb(a, (i \div LimbBits) + 1) \div (2 ^ (i % LimbBits))) % 2

\* a % 2^s = 0
BigLowBitsZero(a, s) ==
    /\ \A i \in 1..(s \div LimbBits) : Limb(a, i) = 0
    /\ Limb(a, (s \div LimbBits) + 1) % (2 ^ (s % LimbBits)) = 0

\* The number of bits of one digit k > 0.
DigitBitLen(k) == CHOOSE j \in 1..LimbBits : 2 ^ (j - 1) <= k /\ k < 2 ^ j

BigBitLen(a) ==
    IF Len(a) = 0 THEN 0 ELSE LimbBits * (Len(a) - 1) + DigitBitLen(a[Len(a)])

\* The digit r \div b for r < b * LimbBase, where the top digit of b is at
\* least LimbBase / 2: the quotient of the top digits is at most two too
\* large.
QuotientDigitNear(r, b, estimate) ==
    CHOOSE d \in Max(estimate - 2, 0)..estimate :
        /\ BigCmp(BigMulSmall(b, d), r) <= 0
        /\ d = estimate \/ BigCmp(BigMulSmall(b, d + 1), r) > 0

QuotientDigit(r, b) ==
    QuotientDigitNear(r, b,
        Min(LimbBase - 1,
            (Limb(r, Len(b) + 1) * LimbBase + Limb(r, Len(b))) \div b[Len(b)]))

\* a \div b, digit by digit from digit i of a down; r is the remainder of the
\* digits above i, r2 the remainder with digit i brought down, d the digit
\* of the quotient.
RECURSIVE BigDivFrom(_, _, _, _)
BigDivDigit(a, b, i, r2, d) ==
    IF d = 0 THEN Append(BigDivFrom(a, b, i - 1, r2), 0)
    ELSE Append(BigDivFrom(a, b, i - 1, BigSub(r2, BigMulSmall(b, d))), d)

BigDivStep(a, b, i, r2) == BigDivDigit(a, b, i, r2, QuotientDigit(r2, b))

BigDivFrom(a, b, i, r) ==
    IF i = 0 THEN <<>>
    ELSE BigDivStep(a, b, i, BigAdd(ShiftLimbs(r, 1), <<a[i]>>))

\* a \div b for b > 0: both are first scaled to make the top digit of b large.
BigDivScaled(a, b) == BigNorm(BigDivFrom(a, b, Len(a), <<>>))

BigDivShifted(a, b, s) == BigDivScaled(BigShl(a, s), BigShl(b, s))

BigDiv(a, b) == BigDivShifted(a, b, LimbBits - DigitBitLen(b[Len(b)]))

\* The integer square root of a > 0 by Newton's iteration from x, x at least
\* the root; y is the next iterate.
RECURSIVE BigSqrtFrom(_, _)
BigSqrtStep(a, x, y) == IF BigCmp(y, x) >= 0 THEN x ELSE BigSqrtFrom(a, y)

BigSqrtFrom(a, x) == BigSqrtStep(a, x, BigShr(BigAdd(x, BigDiv(a, x)), 1))

BigSqrt(a) ==
    IF Len(a) = 0 THEN <<>> ELSE BigSqrtFrom(a, BigShl(<<1>>, (BigBitLen(a) + 1) \div 2))

Float(sign, man, exp) == [sign |-> sign, man |-> man, exp |-> exp]

FZero == Float(0, <<>>, 0)

IsFloat(v) == DOMAIN v = {"sign", "man", "exp"}

FIsZero(a) == a.man = <<>>

\* The float nearest to (-1)^sign * (M + f) * 2^e, where 0 <= f < 1 and
\* sticky tells whether f > 0.  M has at least SignificandBits + 1 bits
\* whenever sticky is set.  M has len bits; the sh bits below the
\* significand q are cut off, and q goes up by one when they are more than
\* half a unit, or exactly half and q is odd.
FRoundCarry(sign, q, e) ==
    IF BigBitLen(q) > SignificandBits THEN Float(sign, BigShr(q, 1), e + 1)
    ELSE Float(sign, q, e)

FRoundCut(sign, M, e, sticky, sh, q) ==
    FRoundCarry(sign,
                IF /\ BigBit(M, sh - 1) = 1
                   /\ (sticky \/ ~BigLowBitsZero(M, sh - 1) \/ BigBit(q, 0) = 1)
                THEN BigAdd(q, <<1>>) ELSE q,
                e + sh)

FRoundLen(sign, M, e, sticky, len) ==
    IF len <= SignificandBits
    THEN Float(sign, BigShl(M, SignificandBits - len), e - (SignificandBits - len))
    ELSE FRoundCut(sign, M, e, sticky, len - SignificandBits,
                   BigShr(M, len - SignificandBits))

FRound(sign, M, e, sticky) ==
    IF M = <<>> THEN FZero ELSE FRoundLen(sign, M, e, sticky, BigBitLen(M))

\* float(k) of a Python int k
FromInt(k) ==
    FRound(IF k < 0 THEN 1 ELSE 0, BigFromInt(IF k < 0 THEN -k ELSE k), 0, FALSE)

FNeg(a) == IF FIsZero(a) THEN a ELSE Float(1 - a.sign, a.man, a.exp)

FMul(a, b) ==
    IF FIsZero(a) \/ FIsZero(b) THEN FZero
    ELSE FRound((a.sign + b.sign) % 2, BigMul(a.man, b.man),
                a.exp + b.exp, FALSE)

\* b is not zero.  N is the significand of a with room for the quotient's
\* bits, q the whole part of N / b.man.
FDivRounded(a, b, N, q) ==
    FRound((a.sign + b.sign) % 2, q,
           a.exp - (SignificandBits + 2) - b.exp, BigMul(q, b.man) # N)

FDivScaled(a, b, N) == FDivRounded(a, b, N, BigDiv(N, b.man))

FDiv(a, b) ==
    IF FIsZero(a) THEN FZero
    ELSE FDivScaled(a, b, BigShl(a.man, SignificandBits + 2))

\* The sum of (-1)^sa * A * 2^e and (-1)^sb * B * 2^e
FAddAligned(sa, A, sb, B, e) ==
    FRound(IF sa = sb \/ BigCmp(A, B) > 0 THEN sa ELSE sb,
           IF sa = sb THEN BigAdd(A, B)
           ELSE IF BigCmp(A, B) >= 0 THEN BigSub(A, B) ELSE BigSub(B, A),
           e, FALSE)

FAdd(a, b) ==
    IF FIsZero(a) THEN b
    ELSE IF FIsZero(b) THEN a
    ELSE FAddAligned(a.sign, BigShl(a.man, a.exp - Min(a.exp, b.exp)),
                     b.sign, BigShl(b.man, b.exp - Min(a.exp, b.exp)),
                     Min(a.exp, b.exp))

FSub(a, b) == FAdd(a, FNeg(b))

\* a is not negative.  M is the significand of a shifted by k bits, k
\* making the exponent even, r the whole part of its root.
FSqrtRounded(a, k, M, r) ==
    FRound(0, r, (a.exp - k) \div 2, BigMul(r, r) # M)

FSqrtScaled(a, k, M) == FSqrtRounded(a, k, M, BigSqrt(M))

FSqrtShifted(a, k) == FSqrtScaled(a, k, BigShl(a.man, k))

FSqrt(a) ==
    IF FIsZero(a) THEN FZero
    ELSE FSqrtShifted(a, IF a.exp % 2 = 0 THEN SignificandBits + 1
                         ELSE SignificandBits + 2)

\* -1, 0, 1 as |a| < |b|, |a| = |b|, |a| > |b| for a and b not zero: the
\* significands have the same number of bits, so the exponent decides first
FCmpMagnitude(a, b) ==
    IF a.exp # b.exp THEN (IF a.exp < b.exp THEN -1 ELSE 1)
    ELSE BigCmp(a.man, b.man)

\* -1, 0, 1 as a < b, a = b, a > b
FCmp(a, b) ==
    IF FIsZero(a) THEN (IF FIsZero(b) THEN 0 ELSE IF b.sign = 1 THEN 1 ELSE -1)
    ELSE IF FIsZero(b) THEN (IF a.sign = 1 THEN -1 ELSE 1)
    ELSE IF a.sign # b.sign THEN (IF a.sign = 1 THEN -1 ELSE 1)
    ELSE IF a.sign = 1 THEN FCmpMagnitude(b, a)
    ELSE FCmpMagnitude(a, b)

(***************************************************************************)
(* The statistical helpers of generate_publication_materials.py.           *)
(***************************************************************************)
\* stats.norm.ppf(1 - (1 - 0.95) / 2) = 1.959963984540054
\*                                    = 8826893070434180 * 2^-52
z_975 == Float(0, <<32644, 25565, 28684, 250>>, -52)

\* Python's max(0, v) and min(1, v) of an int and a float: the int, first
\* in the argument list, is returned unless the float is strictly beyond it
MaxWithZero(v) == IF FCmp(v, FZero) > 0 THEN v ELSE Num(0)

MinWithOne(v) == IF FCmp(v, FromInt(1)) < 0 THEN v ELSE Num(1)

\* v * 100 of an int or a float
TimesHundred(v) ==
    IF IsNum(v) THEN Num(v.num * 100) ELSE FMul(v, FromInt(100))

\* An interval that tells nothing: the whole scale.
WholeScale(x, n) == <<Num(0), Num(100)>>

proportion_ci(x, n) ==
    IF n = 0 THEN <<Num(0), Num(0)>>
    ELSE LET p_hat       == FDiv(FromInt(x), FromInt(n))
             z           == z_975
             z2          == FMul(z, z)
             denominator == FAdd(FromInt(1), FDiv(z2, FromInt(n)))
             center      == FDiv(FAdd(p_hat, FDiv(z2, FromInt(2 * n))),
                                 denominator)
             spread      == FAdd(FMul(p_hat, FSub(FromInt(1), p_hat)),
                                 FDiv(z2, FromInt(4 * n)))
             margin      == FDiv(FMul(z, FSqrt(FDiv(spread, FromInt(n)))),
                                 denominator)
         IN  <<TimesHundred(MaxWithZero(FSub(center, margin))),
               TimesHundred(MinWithOne(FAdd(center, margin)))>>

\* numpy's infinities; its nan is NaN
Inf(sign) == [inf |-> sign]

IsInf(v) == DOMAIN v = {"inf"}

\* numpy's a / b: a division by zero gives inf or nan (and a warning), never
\* an exception
NpDiv(a, b) ==
    IF IsNaN(a) \/ IsNaN(b) THEN NaN
    ELSE IF IsInf(a) THEN IF IsInf(b) THEN NaN
                           ELSE Inf((a.inf + b.sign) % 2)
    ELSE IF IsInf(b) THEN FZero
    ELSE IF FIsZero(b) THEN IF FIsZero(a) THEN NaN ELSE Inf(a.sign)
    ELSE FDiv(a, b)

NpSub(a, b) ==
    IF IsNaN(a) \/ IsNaN(b) THEN NaN
    ELSE IF IsInf(a) THEN IF IsInf(b) /\ a.inf = b.inf THEN NaN ELSE a
    ELSE IF IsInf(b) THEN Inf(1 - b.inf)
    ELSE FSub(a, b)

NpSqrt(a) ==
    IF IsNaN(a) THEN NaN
    ELSE IF IsInf(a) THEN IF a.inf = 0 THEN a ELSE NaN
    ELSE IF a.sign = 1 /\ ~FIsZero(a) THEN NaN
    ELSE FSqrt(a)

NpAbs(a) ==
    IF IsNaN(a) THEN NaN
    ELSE IF IsInf(a) THEN Inf(0)
    ELSE Float(0, a.man, a.exp)

\* 2 * (1 - stats.norm.cdf(a)): nan for nan, 0.0 at infinity; elsewhere the
\* value is named by its argument, the distribution function is not
\* evaluated
TwoSidedP(a) ==
    IF IsNaN(a) THEN NaN
    ELSE IF IsInf(a) THEN FZero
    ELSE [two_sided_p |-> a]

\* The counts x and n are Python ints (kind "int") or, as the rows of a
\* DataFrame hold them, numpy integers (kind "int64"); p0 is a float.
z_test_proportion(x, n, p0, kind) ==
    IF kind = "int" /\ n = 0 THEN Raised("ZeroDivisionError")
    ELSE LET p_hat == NpDiv(FromInt(x), FromInt(n))
             se    == NpSqrt(NpDiv(FMul(p0, FSub(FromInt(1), p0)), FromInt(n)))
         IN  IF IsFloat(se) /\ FIsZero(se) THEN List(<<Num(0), FromInt(1)>>)
             ELSE LET z == NpDiv(NpSub(p_hat, p0), se)
                  IN  List(<<z, TwoSidedP(NpAbs(z))>>)

(***************************************************************************)
(* The calls of the statistical helpers: one call from the start, on       *)
(* arguments drawn from the bounded sets below.                            *)
(***************************************************************************)
Totals == 0..MaxTotal

Counts == 0..MaxTotal

ReferenceProportions ==
    {FZero, FDiv(FromInt(1), FromInt(4)), FDiv(FromInt(1), FromInt(2))}

InitStats ==
    /\ pc = "stats"
    /\ df = None
    /\ columns = None
    /\ result = None
    /\ result2 = None
    /\ STATE_TO_REGION = ImportedStateToRegion
    /\ build_pos = Len(LoopPairs)
    /\ df_meds = None
    /\ df_procs = None
    /\ args = None

ProportionCI ==
    /\ pc = "stats"
    /\ \E n \in Totals : \E x \in Counts :
           /\ n > 0 => x <= n
           /\ args' = [x |-> x, n |-> n]
           /\ result' = List(proportion_ci(x, n))
    /\ pc' = "proportion_ci"
    /\ UNCHANGED <<df, columns, result2, STATE_TO_REGION, build_pos, df_meds, df_procs>>

ZTestProportion ==
    /\ pc = "stats"
    /\ \E n \in Totals : \E x \in Counts : \E p0 \in ReferenceProportions :
       \E kind \in {"int", "int64"} :
           /\ n > 0 => x <= n
           /\ args' = [x |-> x, n |-> n, p0 |-> p0, kind |-> kind]
           /\ result' = z_test_proportion(x, n, p0, kind)
    /\ pc' = "z_test_proportion"
    /\ UNCHANGED <<df, columns, result2, STATE_TO_REGION, build_pos, df_meds, df_procs>>

NextStats == ProportionCI \/ ZTestProportion

SpecStats == InitStats /\ [][NextStats]_vars

(***************************************************************************)
(* generate_publication_materials.py: create_table_per_capita.  The value  *)
(* is df_sorted, the frame the function returns and writes to              *)
(* state_per_capita_rates.csv: one row for each row of df_meds.  The       *)
(* population table is the module's dict US_STATE_POPULATIONS; the action  *)
(* reads it from the state, as the function reads the global at each call. *)
(***************************************************************************)
US_STATE_POPULATIONS ==
    "Alabama" :> 5108468 @@ "Alaska" :> 733406 @@ "Arizona" :> 7431344 @@
    "Arkansas" :> 3067732 @@ "California" :> 38965193 @@
    "Colorado" :> 5877610 @@ "Connecticut" :> 3617176 @@
    "Delaware" :> 1031890 @@ "District of Columbia" :> 678972 @@
    "Florida" :> 23372215 @@ "Georgia" :> 11029227 @@ "Hawaii" :> 1435138 @@
    "Idaho" :> 1964726 @@ "Illinois" :> 12516863 @@ "Indiana" :> 6862199 @@
    "Iowa" :> 3207004 @@ "Kansas" :> 2940546 @@ "Kentucky" :> 4526154 @@
    "Louisiana" :> 4573749 @@ "Maine" :> 1395722 @@ "Maryland" :> 6180253 @@
    "Massachusetts" :> 7001399 @@ "Michigan" :> 10037261 @@
    "Minnesota" :> 5737915 @@ "Mississippi" :> 2939690 @@
    "Missouri" :> 6196156 @@ "Montana" :> 1132812 @@ "Nebraska" :> 1978379 @@
    "Nevada" :> 3194176 @@ "New Hampshire" :> 1402054 @@
    "New Jersey" :> 9290841 @@ "New Mexico" :> 2114371 @@
    "New York" :> 19571216 @@ "North Carolina" :> 10835491 @@
    "North Dakota" :> 783926 @@ "Ohio" :> 11785935 @@
    "Oklahoma" :> 4053824 @@ "Oregon" :> 4233358 @@
    "Pennsylvania" :> 12961683 @@ "Rhode Island" :> 1095962 @@
    "South Carolina" :> 5373555 @@ "South Dakota" :> 919318 @@
    "Tennessee" :> 7126489 @@ "Texas" :> 30503301 @@ "Utah" :> 3417734 @@
    "Vermont" :> 647464 @@ "Virginia" :> 8683619 @@
    "Washington" :> 7812880 @@ "West Virginia" :> 1770071 @@
    "Wisconsin" :> 5910955 @@ "Wyoming" :> 584057

STATE_ABBREV ==
    "Alabama" :> "AL" @@ "Alaska" :> "AK" @@ "Arizona" :> "AZ" @@
    "Arkansas" :> "AR" @@ "California" :> "CA" @@ "Colorado" :> "CO" @@
    "Connecticut" :> "CT" @@ "Delaware" :> "DE" @@
    "District of Columbia" :> "DC" @@ "Florida" :> "FL" @@
    "Georgia" :> "GA" @@ "Hawaii" :> "HI" @@ "Idaho" :> "ID" @@
    "Illinois" :> "IL" @@ "Indiana" :> "IN" @@ "Iowa" :> "IA" @@
    "Kansas" :> "KS" @@ "Kentucky" :> "KY" @@ "Louisiana" :> "LA" @@
    "Maine" :> "ME" @@ "Maryland" :> "MD" @@ "Massachusetts" :> "MA" @@
    "Michigan" :> "MI" @@ "Minnesota" :> "MN" @@ "Mississippi" :> "MS" @@
    "Missouri" :> "MO" @@ "Montana" :> "MT" @@ "Nebraska" :> "NE" @@
    "Nevada" :> "NV" @@ "New Hampshire" :> "NH" @@ "New Jersey" :> "NJ" @@
    "New Mexico" :> "NM" @@ "New York" :> "NY" @@ "North Carolina" :> "NC" @@
    "North Dakota" :> "ND" @@ "Ohio" :> "OH" @@ "Oklahoma" :> "OK" @@
    "Oregon" :> "OR" @@ "Pennsylvania" :> "PA" @@ "Rhode Island" :> "RI" @@
    "South Carolina" :> "SC" @@ "South Dakota" :> "SD" @@
    "Tennessee" :> "TN" @@ "Texas" :> "TX" @@ "Utah" :> "UT" @@
    "Vermont" :> "VT" @@ "Virginia" :> "VA" @@ "Washington" :> "WA" @@
    "West Virginia" :> "WV" @@ "Wisconsin" :> "WI" @@ "Wyoming" :> "WY"

\* Series.map(dict) gives the dict's value for a cell that is one of its
\* keys, NaN for any other
MapsKey(cell, dict) == IsStr(cell) /\ cell.str \in DOMAIN dict

\* a / b, a * b of two cells of numeric columns (int cells are converted to
\* float64, a blank population is nan)
CellToFloat(cell) ==
    IF IsNum(cell) THEN FromInt(cell.num) ELSE cell

NpMul(a, b) ==
    IF IsNaN(a) \/ IsNaN(b) THEN NaN
    ELSE IF IsInf(a) THEN IF FIsZero(b) THEN NaN ELSE Inf((a.inf + b.sign) % 2)
    ELSE IF IsInf(b) THEN IF FIsZero(a) THEN NaN ELSE Inf((a.sign + b.inf) % 2)
    ELSE FMul(a, b)

\* -1, 0 or 1 as a < b, a = b, a > b, of two floats that are not nan
NpCmp(a, b) ==
    IF IsInf(a) THEN IF IsInf(b) THEN (IF a.inf = b.inf THEN 0
                                       ELSE IF a.inf = 1 THEN -1 ELSE 1)
                     ELSE IF a.inf = 1 THEN -1 ELSE 1
    ELSE IF IsInf(b) THEN IF b.inf = 1 THEN 1 ELSE -1
    ELSE FCmp(a, b)

\* Line 133: df['total'] / df['population'] * 100000
PerHundredThousand(total, population) ==
    NpMul(NpDiv(CellToFloat(total), CellToFloat(population)), FromInt(100000))

\* Lines 131-134 and the column selection of line 137, for row i of df
PerCapitaRow(d, i, populations) ==
    LET state      == GetColumn(d, "state")[i]
        total      == GetColumn(d, "total")[i]
        population == IF MapsKey(state, populations)
                      THEN Num(populations[state.str]) ELSE NaN
    IN  [state |-> state,
         state_abbrev |-> IF MapsKey(state, STATE_ABBREV)
                          THEN Str(STATE_ABBREV[state.str]) ELSE NaN,
         total |-> total,
         population |-> population,
         per_100k |-> PerHundredThousand(total, population),
         census_region |-> GetColumn(d, "census_region")[i]]

\* sort_values('per_100k', ascending=False): the rows in descending order
\* of the rate, equal rates in the order they had, the rows of a nan rate
\* last
RECURSIVE SortByRate(_)
SortByRate(rows) ==
    IF Len(rows) = 0 THEN <<>>
    ELSE IF \A i \in DOMAIN rows : IsNaN(rows[i].per_100k) THEN rows
    ELSE LET best == CHOOSE i \in DOMAIN rows :
                 /\ ~IsNaN(rows[i].per_100k)
                 /\ \A j \in DOMAIN rows :
                        ~IsNaN(rows[j].per_100k) =>
                            NpCmp(rows[j].per_100k, rows[i].per_100k) <= 0
                 /\ \A j \in 1..(i - 1) :
                        ~IsNaN(rows[j].per_100k) =>
                            NpCmp(rows[j].per_100k, rows[i].per_100k) < 0
         IN  <<rows[best]>>
                 \o SortByRate(SubSeq(rows, 1, best - 1)
                                   \o SubSeq(rows, best + 1, Len(rows)))

create_table_per_capita(d, populations) ==
    List(SortByRate([i \in DOMAIN GetColumn(d, "state") |->
                        PerCapitaRow(d, i, populations)]))

(***************************************************************************)
(* A call of create_table_per_capita on a loaded medication table.  The    *)
(* population table is the one of lines 36-50, or that table with the      *)
(* entry of one jurisdiction replaced: the dict is data of the module that *)
(* a new release of the estimates replaces, and the function takes         *)
(* whatever it holds.                                                      *)
(***************************************************************************)
RateStateCells == {Str("Alabama"), Str("Ohio"), Str("Puerto Rico")}

RateTotals == {5, 12}

ReplacedPopulations == {11785935, 0, -1}

RatesTable(st, totals) ==
    [columns |-> <<"state", "total">>,
     data |-> <<st, [i \in DOMAIN st |-> Num(totals[i])]>>]

InitPerCapita ==
    /\ pc = "loaded_rates"
    /\ df = None
    /\ columns = None
    /\ result = None
    /\ result2 = None
    /\ STATE_TO_REGION = ImportedStateToRegion
    /\ build_pos = Len(LoopPairs)
    /\ df_procs = None
    /\ \E n \in 1..MaxStateRows :
       \E st \in SeqsOfLen(RateStateCells, n), totals \in SeqsOfLen(RateTotals, n) :
           df_meds = add_census_region(RatesTable(st, totals), "state",
                                       STATE_TO_REGION)
    /\ \E p \in ReplacedPopulations :
           args = [US_STATE_POPULATIONS |->
                       [US_STATE_POPULATIONS EXCEPT !["Ohio"] = p]]

\* result = create_table_per_capita(df_meds)
CreateTablePerCapita ==
    /\ pc = "loaded_rates"
    /\ result' = create_table_per_capita(df_meds, args.US_STATE_POPULATIONS)
    /\ pc' = "table_per_capita"
    /\ UNCHANGED <<df, columns, result2, STATE_TO_REGION, build_pos,
                   df_meds, df_procs, args>>

NextPerCapita == CreateTablePerCapita

SpecPerCapita == InitPerCapita /\ [][NextPerCapita]_vars

(***************************************************************************)
(* Formatting of a float: f"{x:.1f}", f"{x:.3f}".  The decimal written is  *)
(* the exact value of the float rounded to the nearest, a tie to the even  *)
(* digit.                                                                  *)
(***************************************************************************)
\* the float a decimal literal num / den stands for (den a power of ten)
Literal(num, den) == FDiv(FromInt(num), FromInt(den))

\* the int of a big natural below 2^31
BigToInt(a) == Limb(a, 1) + LimbBase * Limb(a, 2) + LimbBase * LimbBase * Limb(a, 3)

\* |x| * 10^decimals rounded to an integer
ScaledDigits(x, decimals) ==
    LET M == BigMul(x.man, BigFromInt(10 ^ decimals))
    IN  IF x.exp >= 0 THEN BigToInt(BigShl(M, x.exp))
        ELSE LET sh   == -x.exp
                 q    == BigShr(M, sh)
                 half == BigBit(M, sh - 1) = 1
                 rest == ~BigLowBitsZero(M, sh - 1)
                 odd  == BigBit(q, 0) = 1
             IN  BigToInt(q) + (IF half /\ (rest \/ odd) THEN 1 ELSE 0)

\* n as exactly `width` digits
RECURSIVE ZeroPadded(_, _)
ZeroPadded(n, width) ==
    IF width = 0 THEN <<>>
    ELSE Append(ZeroPadded(n \div 10, width - 1), Digits[(n % 10) + 1])

\* f"{x:.{decimals}f}"
FormatFloat(x, decimals) ==
    IF IsNaN(x) THEN <<"n", "a", "n">>
    ELSE IF IsInf(x) THEN (IF x.inf = 1 THEN <<"-">> ELSE <<>>) \o <<"i", "n", "f">>
    ELSE LET scaled == IF FIsZero(x) THEN 0 ELSE ScaledDigits(x, decimals)
         IN  (IF x.sign = 1 THEN <<"-">> ELSE <<>>)
                 \o IntToStr(scaled \div (10 ^ decimals)) \o <<".">>
                 \o ZeroPadded(scaled % (10 ^ decimals), decimals)

\* a < b of two floats, either of which may be nan (then False)
NpLess(a, b) == ~IsNaN(a) /\ ~IsNaN(b) /\ NpCmp(a, b) < 0

\* Three decimals whatever the value.
FormatThreeDecimals(p) == FormatFloat(p, 3)

\* format_pvalue of a float p
format_pvalue(p) ==
    IF NpLess(p, Literal(1, 1000)) THEN <<"<", "0", ".", "0", "0", "1">>
    ELSE FormatFloat(p, 3)

(***************************************************************************)
(* scipy.stats.chi2_contingency(observed) on a two-way table of counts,    *)
(* with its defaults (correction=True, Pearson's statistic).  The library  *)
(* raises ValueError on a negative count, on an empty table and on an      *)
(* expected frequency of zero.  The value of the chi-square distribution   *)
(* function is not computed here: sf stands for what chi2.sf gives for the *)
(* statistic, and the caller draws it.                                     *)
(***************************************************************************)
\* the cells of a sequence, each computed once
Concrete(s) == SubSeq(s, 1, Len(s))

RECURSIVE SumInts(_)
SumInts(s) == IF Len(s) = 0 THEN 0 ELSE s[1] + SumInts(Tail(s))

RowCounts(observed, i) == observed[i]

ColumnCounts(observed, j) == [i \in DOMAIN observed |-> observed[i][j]]

NpAdd(a, b) ==
    IF IsNaN(a) \/ IsNaN(b) THEN NaN
    ELSE IF IsInf(a) THEN IF IsInf(b) /\ a.inf # b.inf THEN NaN ELSE a
    ELSE IF IsInf(b) THEN b
    ELSE FAdd(a, b)

\* expected_freq: (row sum * column sum) / total, for cell k of the table
\* read row by row
ExpectedFreq(observed, width) ==
    LET total == SumInts([i \in DOMAIN observed |-> SumInts(observed[i])])
    IN  Concrete([k \in 1..(Len(observed) * width) |->
            NpDiv(FMul(FromInt(SumInts(RowCounts(observed, ((k - 1) \div width) + 1))),
                       FromInt(SumInts(ColumnCounts(observed, ((k - 1) % width) + 1)))),
                  FromInt(total))])

\* Yates' correction of one observed count: it moves towards the expected
\* frequency by 0.5, or by the whole difference when that is smaller
YatesCorrected(count, expected) ==
    LET diff == NpSub(expected, FromInt(count))
    IN  IF IsNaN(diff) THEN NaN
        ELSE IF FIsZero(diff) THEN FromInt(count)
        ELSE LET magnitude == IF FCmp(NpAbs(diff), Literal(1, 2)) < 0
                              THEN NpAbs(diff) ELSE Literal(1, 2)
             IN  FAdd(FromInt(count),
                      IF diff.sign = 1 THEN FNeg(magnitude) ELSE magnitude)

\* (f_obs - f_exp)**2 / f_exp
PearsonTerm(f_obs, f_exp) ==
    LET diff == NpSub(f_obs, f_exp)
    IN  NpDiv(NpMul(diff, diff), f_exp)

\* numpy's sum of floats, the cells of the table taken row by row: fewer than
\* eight are added from the first to the last; of eight to fifteen the first
\* eight are added in pairs, and the others are then added one by one
RECURSIVE SumFrom(_, _)
SumFrom(start, terms) ==
    IF Len(terms) = 0 THEN start
    ELSE SumFrom(NpAdd(start, terms[1]), Tail(terms))

NpSum(terms) ==
    IF Len(terms) < 8 THEN SumFrom(FZero, terms)
    ELSE SumFrom(NpAdd(NpAdd(NpAdd(terms[1], terms[2]), NpAdd(terms[3], terms[4])),
                       NpAdd(NpAdd(terms[5], terms[6]), NpAdd(terms[7], terms[8]))),
                 SubSeq(terms, 9, Len(terms)))

\* A plausible slip: one column too many is free.
FreeCellsOfRows(height, width) == (height - 1) * width

\* dof = expected.size - sum(expected.shape) + expected.ndim - 1
DegreesOfFreedom(height, width) == height * width - (height + width) + 2 - 1

\* The library up to the statistic: ValueError from one of its three checks,
\* or the statistic and the degrees of freedom
Chi2Statistic(observed) ==
    LET height   == Len(observed)
        width    == IF height = 0 THEN 0 ELSE Len(observed[1])
        expected == ExpectedFreq(observed, width)
        dof      == DegreesOfFreedom(height, width)
        Cell(k)  == observed[((k - 1) \div width) + 1][((k - 1) % width) + 1]
        terms    == Concrete([k \in DOMAIN expected |->
                        PearsonTerm(IF dof = 1 THEN YatesCorrected(Cell(k), expected[k])
                                    ELSE FromInt(Cell(k)),
                                    expected[k])])
    IN  IF \E i \in DOMAIN observed : \E j \in DOMAIN observed[i] : observed[i][j] < 0
        THEN Raised("ValueError")
        ELSE IF height * width = 0 THEN Raised("ValueError")
        ELSE IF \E k \in DOMAIN expected : IsFloat(expected[k]) /\ FIsZero(expected[k])
        THEN Raised("ValueError")
        ELSE IF dof = 0 THEN [chi2 |-> FZero, dof |-> dof]
        ELSE [chi2 |-> NpSum(terms), dof |-> dof]

\* The p-value of a statistic: 1.0 without degrees of freedom, nan for nan,
\* else the value sf of the distribution function
Chi2PValue(statistic, sf) ==
    IF statistic.dof = 0 THEN FromInt(1)
    ELSE IF IsNaN(statistic.chi2) THEN NaN
    ELSE sf

chi2_contingency(observed, sf) ==
    LET statistic == Chi2Statistic(observed)
    IN  IF IsRaised(statistic) THEN statistic
        ELSE [chi2 |-> statistic.chi2, p |-> Chi2PValue(statistic, sf),
              dof |-> statistic.dof]

(***************************************************************************)
(* generate_publication_materials.py: create_table4.  A row of Table 4 is  *)
(* [Test, Chi_Square, df, P_value, Result].                                *)
(***************************************************************************)
table4_med_cols ==
    <<"carbamazepine_oxcarbazepine", "gabapentin", "pregabalin", "baclofen",
      "lamotrigine">>

table4_proc_cols == <<"mvd", "srs", "rhizotomy", "botox">>

\* Lines 269-271: the listed columns the table has, summed by region
RegionCounts(d, cols) ==
    GroupByAgg(d, "census_region", PresentColumns(d, cols))

\* np.asarray(region_counts): the sums, one row for each region
Observed(d, cols) ==
    LET agg == RegionCounts(d, cols)
    IN  Concrete([i \in DOMAIN GetColumn(agg, "census_region") |->
            Concrete([j \in DOMAIN PresentColumns(d, cols) |->
                GetColumn(agg, PresentColumns(d, cols)[j])[i].num])])

\* Lines 281-287: one row of the table
TestRow(name, test) ==
    [Test |-> name,
     Chi_Square |-> FormatFloat(test.chi2, 1),
     df |-> test.dof,
     P_value |-> format_pvalue(test.p),
     Result |-> IF NpLess(test.p, Literal(5, 100)) THEN "Significant"
                ELSE "Not Significant"]

\* Lines 269-299 on the two statistics: the exception of the first call that
\* raised, or the two rows
Table4Rows(statistic_med, statistic_proc, sf_med, sf_proc) ==
    IF IsRaised(statistic_med) THEN statistic_med
    ELSE IF IsRaised(statistic_proc) THEN statistic_proc
    ELSE List(<<TestRow("Medication Preferences by Region",
                        [chi2 |-> statistic_med.chi2,
                         p |-> Chi2PValue(statistic_med, sf_med),
                         dof |-> statistic_med.dof]),
                TestRow("Surgical Preferences by Region",
                        [chi2 |-> statistic_proc.chi2,
                         p |-> Chi2PValue(statistic_proc, sf_proc),
                         dof |-> statistic_proc.dof])>>)

\* Lines 269-272, 275-278: the aggregation and the call of the routine;
\* groupby(...).agg({}) of no listed column raises ValueError
RegionTest(d, cols) ==
    IF PresentColumns(d, cols) = <<>> THEN Raised("ValueError")
    ELSE Chi2Statistic(Observed(d, cols))

create_table4(meds, procs, sf_med, sf_proc) ==
    Table4Rows(RegionTest(meds, table4_med_cols), RegionTest(procs, table4_proc_cols),
               sf_med, sf_proc)

\* The tables stats.chi2_contingency is called on, in the order of the calls
Chi2Calls(meds, procs, statistic_med) ==
    IF PresentColumns(meds, table4_med_cols) = <<>> THEN <<>>
    ELSE IF IsRaised(statistic_med) \/ PresentColumns(procs, table4_proc_cols) = <<>>
    THEN <<Observed(meds, table4_med_cols)>>
    ELSE <<Observed(meds, table4_med_cols), Observed(procs, table4_proc_cols)>>

(***************************************************************************)
(* A call of create_table4 on two loaded tables.  sf_med and sf_proc are   *)
(* the values chi2.sf gives for the two statistics.                        *)
(***************************************************************************)
\* state, gabapentin, baclofen, pregabalin of a row of the medication table
Table4MedRows ==
    {<<"Alabama", 5, 12, 5>>, <<"Ohio", 12, 5, 0>>, <<"Ohio", 0, 0, 0>>,
     <<"Alabama", 0, 0, 0>>, <<"Puerto Rico", 5, 5, 5>>}

Table4MedColumns ==
    {<<"gabapentin", "baclofen">>, <<"gabapentin", "baclofen", "pregabalin">>}

\* the srs counts of the two rows of the procedure table
Table4SrsCounts == {<<12, 5>>, <<0, 0>>}

\* the p-values 0.0421 and 0.05, in ten-thousandths
SfTenThousandths == {421, 500}

Table4Meds(rows, cols) ==
    [columns |-> <<"state">> \o cols \o <<"total">>,
     data |-> <<[i \in DOMAIN rows |-> Str(rows[i][1])]>>
              \o [j \in DOMAIN cols |-> [i \in DOMAIN rows |-> Num(rows[i][j + 1])]]
              \o <<CountColumn(Len(rows))>>]

Table4Procs(srs) ==
    [columns |-> <<"state", "mvd", "srs", "total">>,
     data |-> <<(<<Str("Alabama"), Str("Ohio")>>), (<<Num(5), Num(12)>>),
                (<<Num(srs[1]), Num(srs[2])>>), CountColumn(2)>>]

InitTable4 ==
    /\ pc = "loaded_tables"
    /\ df = None
    /\ columns = None
    /\ result = None
    /\ result2 = None
    /\ STATE_TO_REGION = ImportedStateToRegion
    /\ build_pos = Len(LoopPairs)
    /\ args = None
    /\ \E n \in 1..MaxStateRows :
       \E rows \in SeqsOfLen(Table4MedRows, n), cols \in Table4MedColumns :
           df_meds = add_census_region(Table4Meds(rows, cols), "state", STATE_TO_REGION)
    /\ \E srs \in Table4SrsCounts :
           df_procs = add_census_region(Table4Procs(srs), "state", STATE_TO_REGION)

\* result = create_table4(df_meds, df_procs); result2 lists the tables the
\* chi-square routine was called on
CreateTable4 ==
    /\ pc = "loaded_tables"
    /\ LET statistic_med  == RegionTest(df_meds, table4_med_cols)
           statistic_proc == RegionTest(df_procs, table4_proc_cols)
       IN  /\ \E sf_med \in SfTenThousandths, sf_proc \in SfTenThousandths :
                  /\ args' = [sf_med |-> Literal(sf_med, 10000),
                              sf_proc |-> Literal(sf_proc, 10000)]
                  /\ result' = Table4Rows(statistic_med, statistic_proc,
                                          Literal(sf_med, 10000),
                                          Literal(sf_proc, 10000))
           /\ result2' = List(Chi2Calls(df_meds, df_procs, statistic_med))
    /\ pc' = "table4"
    /\ UNCHANGED <<df, columns, STATE_TO_REGION, build_pos, df_meds, df_procs>>

NextTable4 == CreateTable4

SpecTable4 == InitTable4 /\ [][NextTable4]_vars

(***************************************************************************)
(* The calls of format_pvalue: one call from the start, on a p-value drawn *)
(* from the ten-thousandths below.                                         *)
(***************************************************************************)
PValueTenThousandths == 0..MaxPValue \cup {421, 500, 9994, 9995, 10000}

InitPValue ==
    /\ pc = "pvalue_given"
    /\ df = None
    /\ columns = None
    /\ result = None
    /\ result2 = None
    /\ STATE_TO_REGION = ImportedStateToRegion
    /\ build_pos = Len(LoopPairs)
    /\ df_meds = None
    /\ df_procs = None
    /\ \E k \in PValueTenThousandths : args = [p |-> Literal(k, 10000)]

\* result = format_pvalue(p)
FormatPValue ==
    /\ pc = "pvalue_given"
    /\ result' = Str(format_pvalue(args.p))
    /\ pc' = "pvalue"
    /\ UNCHANGED <<df, columns, result2, STATE_TO_REGION, build_pos,
                   df_meds, df_procs, args>>

NextPValue == FormatPValue

SpecPValue == InitPValue /\ [][NextPValue]_vars

(***************************************************************************)
(* create_table2 and the state bar charts, create_figure2_bar and          *)
(* create_figure3_bar, of generate_publication_materials.py.  A chart is   *)
(* modelled by what it draws: the bars in the order drawn, each with its   *)
(* state, rate and colour, and the line and label of the national average. *)
(***************************************************************************)
STATES_TO_EXCLUDE == {"Alaska"}

table2_med_cols ==
    <<"carbamazepine_oxcarbazepine", "gabapentin", "pregabalin", "baclofen",
      "lamotrigine", "onabotulinumtoxina">>

table2_proc_cols == <<"mvd", "srs", "rhizotomy", "glycerol_rhizotomy", "botox">>

med_names ==
    [carbamazepine_oxcarbazepine |-> "Carbamazepine/Oxcarbazepine",
     gabapentin |-> "Gabapentin",
     pregabalin |-> "Pregabalin",
     baclofen |-> "Baclofen",
     lamotrigine |-> "Lamotrigine",
     onabotulinumtoxina |-> "OnabotulinumtoxinA"]

proc_names ==
    [mvd |-> "Microvascular Decompression (MVD)",
     srs |-> "Stereotactic Radiosurgery (SRS)",
     rhizotomy |-> "Percutaneous Rhizotomy",
     glycerol_rhizotomy |-> "Glycerol Rhizotomy",
     botox |-> "Botox Injection"]

\* f"{v:.{decimals}f}" of an int or a float
FormatNumber(v, decimals) ==
    IF IsNum(v) THEN FormatFloat(FromInt(v.num), decimals)
    ELSE FormatFloat(v, decimals)

\* The digits of n in groups of three from the right, a comma between the
\* groups.
RECURSIVE GroupThousands(_)
GroupThousands(digits) ==
    IF Len(digits) <= 3 THEN digits
    ELSE GroupThousands(SubSeq(digits, 1, Len(digits) - 3))
             \o <<",">> \o SubSeq(digits, Len(digits) - 2, Len(digits))

\* f"{n:,.0f}" of an integer n >= 0
FormatCount(n) == GroupThousands(IntToStr(n))

\* sum / total * 100 of two numpy integers
RatePercent(n, total) == NpMul(NpDiv(FromInt(n), FromInt(total)), FromInt(100))

Table2Heading(name) == [Treatment |-> name, N |-> <<>>, Rate |-> <<>>, CI |-> <<>>]

\* f"({ci_low:.1f}-{ci_high:.1f})"
FormatInterval(ci, decimals) ==
    <<"(">> \o FormatNumber(Head(ci), decimals) \o <<"-">>
            \o FormatNumber(Head(Tail(ci)), decimals) \o <<")">>

Table2Row(name, n, total, decimals) ==
    [Treatment |-> name,
     N |-> FormatCount(n),
     Rate |-> FormatFloat(RatePercent(n, total), decimals),
     CI |-> FormatInterval(proportion_ci(n, total), decimals)]

\* The rows of the columns cols[i..] that the table d has.
RECURSIVE Table2Rows(_, _, _, _, _, _)
Table2Rows(d, cols, names, total, decimals, i) ==
    IF i > Len(cols) THEN <<>>
    ELSE (IF HasColumn(d, cols[i])
          THEN <<Table2Row(names[cols[i]], SeriesSum(GetColumn(d, cols[i])),
                           total, decimals)>>
          ELSE <<>>)
             \o Table2Rows(d, cols, names, total, decimals, i + 1)

\* The total of the medication table is the denominator of the procedure
\* rows too.
Table2Of(meds, procs, total) ==
    <<Table2Heading("MEDICATIONS")>>
        \o Table2Rows(meds, table2_med_cols, med_names, total, 1, 1)
        \o <<Table2Heading(""), Table2Heading("PROCEDURES")>>
        \o Table2Rows(procs, table2_proc_cols, proc_names, total, 2, 1)

create_table2(meds, procs) ==
    Table2Of(meds, procs, SeriesSum(GetColumn(meds, "total")))

\* The rows from row i on whose state is not in STATES_TO_EXCLUDE.
RECURSIVE KeptRows(_, _)
KeptRows(states, i) ==
    IF i > Len(states) THEN <<>>
    ELSE (IF IsStr(states[i]) /\ states[i].str \in STATES_TO_EXCLUDE
          THEN <<>> ELSE <<i>>)
             \o KeptRows(states, i + 1)

TakeRows(d, kept) ==
    [d EXCEPT !.data = [j \in DOMAIN d.data |->
                            Concrete([k \in DOMAIN kept |-> d.data[j][kept[k]]])]]

\* d[~d['state'].isin(STATES_TO_EXCLUDE)]
DropExcluded(d) == TakeRows(d, KeptRows(GetColumn(d, "state"), 1))

\* d[col] / d['total'] * 100 of row i
StateRate(d, col, i) ==
    NpMul(NpDiv(CellToFloat(GetColumn(d, col)[i]),
                CellToFloat(GetColumn(d, "total")[i])),
          FromInt(100))

\* d[col].sum() / d['total'].sum() * 100
NationalRate(d, col) ==
    RatePercent(SeriesSum(GetColumn(d, col)), SeriesSum(GetColumn(d, "total")))

\* The p-value of a z-test: where the model of z_test_proportion names it
\* by its argument only, it is the value sf.
PValueOf(p, sf) == IF DOMAIN p = {"two_sided_p"} THEN sf ELSE CellToFloat(p)

BarColor(sig, above) ==
    IF sig /\ above THEN "#D55E00"
    ELSE IF sig /\ ~above THEN "#0072B2"
    ELSE "#999999"

Bar(state, rate, p, sig, above) ==
    [state |-> state, rate |-> rate, p |-> p, sig |-> sig, above |-> above,
     color |-> BarColor(sig, above)]

\* A bar marked at p <= 0.05.
MarkedBarInclusive(state, rate, national_rate, p) ==
    Bar(state, rate, p, ~NpLess(Literal(5, 100), p), NpCmp(rate, national_rate) > 0)

\* get_significance of a row, and the bar drawn for the row
MarkedBar(state, rate, national_rate, p) ==
    Bar(state, rate, p, NpLess(p, Literal(5, 100)), NpCmp(rate, national_rate) > 0)

StateTest(d, col, national_rate, i) ==
    z_test_proportion(GetColumn(d, col)[i].num, GetColumn(d, "total")[i].num,
                      NpDiv(national_rate, FromInt(100)), "int64")

\* The state, the rate and the z-test of the rows of d from row i on.
RECURSIVE TestedFrom(_, _, _, _)
TestedFrom(d, col, national_rate, i) ==
    IF i > Len(GetColumn(d, "state")) THEN <<>>
    ELSE <<[state |-> GetColumn(d, "state")[i],
            rate  |-> StateRate(d, col, i),
            p     |-> Head(Tail(StateTest(d, col, national_rate, i).list))]>>
             \o TestedFrom(d, col, national_rate, i + 1)

TestedBars(d, col, national_rate) == TestedFrom(d, col, national_rate, 1)

\* The bars of the rows; the p-value of the z-test of a row is the value
\* of sf at the same place.
RECURSIVE MarkedBars(_, _, _)
MarkedBars(tested, national_rate, sf) ==
    IF tested = <<>> THEN <<>>
    ELSE <<MarkedBar(Head(tested).state, Head(tested).rate, national_rate,
                     PValueOf(Head(tested).p, Head(sf)))>>
             \o MarkedBars(Tail(tested), national_rate, Tail(sf))

\* The bar put into the bars sorted by rate, before the first one of the
\* same or a higher rate.
RECURSIVE InsertBar(_, _)
InsertBar(bar, sorted) ==
    IF sorted = <<>> THEN <<bar>>
    ELSE IF NpCmp(bar.rate, Head(sorted).rate) <= 0 THEN <<bar>> \o sorted
    ELSE <<Head(sorted)>> \o InsertBar(bar, Tail(sorted))

\* sort_values(rate): ascending, rows of equal rate in their order
RECURSIVE SortByBarRate(_)
SortByBarRate(rows) ==
    IF rows = <<>> THEN <<>>
    ELSE InsertBar(Head(rows), SortByBarRate(Tail(rows)))

\* What the chart draws: the bars in ascending order of the rate, the line
\* of the national average and the number in its label.
Chart(tested, national_rate, decimals, sf) ==
    [bars |-> SortByBarRate(MarkedBars(tested, national_rate, sf)),
     national_rate |-> national_rate,
     label |-> FormatFloat(national_rate, decimals)]

(***************************************************************************)
(* The run of main() over Table 2 and the two bar charts, from tables of   *)
(* at least one state that is drawn, every total positive.                 *)
(***************************************************************************)
\* The <<state, count, total>> of one row.
BarRows ==
    {<<"Alabama", 0, 5>>, <<"Ohio", 0, 5>>, <<"Ohio", 5, 12>>, <<"Alaska", 5, 5>>}

BarTable(rows, col) ==
    [columns |-> <<"state", col, "total">>,
     data |-> <<[i \in DOMAIN rows |-> Str(rows[i][1])],
                [i \in DOMAIN rows |-> Num(rows[i][2])],
                [i \in DOMAIN rows |-> Num(rows[i][3])]>>]

InitBars ==
    /\ pc = "loaded_bars"
    /\ df = None
    /\ columns = None
    /\ result = None
    /\ result2 = None
    /\ STATE_TO_REGION = ImportedStateToRegion
    /\ build_pos = Len(LoopPairs)
    /\ args = None
    /\ \E n \in 1..MaxBarRows :
       \E rows \in SeqsOfLen(BarRows, n) :
           /\ \E i \in 1..n : rows[i][1] \notin STATES_TO_EXCLUDE
           /\ df_meds = BarTable(rows, "carbamazepine_oxcarbazepine")
           /\ df_procs = BarTable(rows, "mvd")

\* result2 = create_table2(df_meds, df_procs)
CreateTable2 ==
    /\ pc = "loaded_bars"
    /\ result2' = List(create_table2(df_meds, df_procs))
    /\ pc' = "table2"
    /\ UNCHANGED <<df, columns, result, STATE_TO_REGION, build_pos,
                   df_meds, df_procs, args>>

\* The p-values drawn for the z-tests of a chart: 0.0421 and 0.05.
DrawnPValues == {Literal(421, 10000), Literal(500, 10000)}

\* result = create_figure2_bar(df_meds.copy()): the rows of the excluded
\* states are dropped, then the rates, the national rate and the tests are
\* computed
CreateFigure2Bar ==
    /\ pc = "table2"
    /\ LET kept          == DropExcluded(df_meds)
           national_rate == NationalRate(kept, "carbamazepine_oxcarbazepine")
           tested        == TestedBars(kept, "carbamazepine_oxcarbazepine",
                                       national_rate)
       IN  \E sf \in SeqsOfLen(DrawnPValues, MaxBarRows) :
               /\ args' = [sf |-> sf]
               /\ result' = Chart(tested, national_rate, 1, sf)
    /\ pc' = "figure2_bar"
    /\ UNCHANGED <<df, columns, result2, STATE_TO_REGION, build_pos,
                   df_meds, df_procs>>

\* result = create_figure3_bar(df_procs.copy())
CreateFigure3Bar ==
    /\ pc = "table2"
    /\ LET kept          == DropExcluded(df_procs)
           national_rate == NationalRate(kept, "mvd")
           tested        == TestedBars(kept, "mvd", national_rate)
       IN  \E sf \in SeqsOfLen(DrawnPValues, MaxBarRows) :
               /\ args' = [sf |-> sf]
               /\ result' = Chart(tested, national_rate, 2, sf)
    /\ pc' = "figure3_bar"
    /\ UNCHANGED <<df, columns, result2, STATE_TO_REGION, build_pos,
                   df_meds, df_procs>>

NextBars == CreateTable2 \/ CreateFigure2Bar \/ CreateFigure3Bar

SpecBars == InitBars /\ [][NextBars]_vars

\* Table 4 and the bar charts, the outputs that flag a test result.
InitFlags == InitTable4 \/ InitBars

NextFlags == NextTable4 \/ NextBars

SpecFlags == InitFlags /\ [][NextFlags]_vars

(***************************************************************************)
(* PipelineConfig of analysis_config.py: the dataclass-generated __init__  *)
(* stores the fields and then calls __post_init__; an error raised there   *)
(* leaves the caller without an object.  A dict is a function from its     *)
(* keys, and is false exactly when it has no key.                          *)
(***************************************************************************)
TN_CONFIG_medications ==
    <<<<"carbamazepine_oxcarbazepine", "Carbamazepine/Oxcarbazepine">>,
      <<"gabapentin", "Gabapentin">>,
      <<"pregabalin", "Pregabalin">>,
      <<"baclofen", "Baclofen">>,
      <<"lamotrigine", "Lamotrigine">>,
      <<"botox", "OnabotulinumtoxinA">>,
      <<"none", "None of the above">>>>

TN_CONFIG_procedures ==
    <<<<"mvd", "MVD (Microvascular Decompression)">>,
      <<"srs", "SRS (Stereotactic Radiosurgery)">>,
      <<"rhizotomy", "Percutaneous Rhizotomy">>,
      <<"glycerol", "Glycerol Rhizotomy">>,
      <<"botox", "Botox Injection">>,
      <<"none", "None of the above">>>>

\* The dict of the entries of pairs at the positions chosen.
MappingOf(pairs, chosen) ==
    [key \in {pairs[i][1] : i \in chosen} |->
        pairs[CHOOSE i \in chosen : pairs[i][1] = key][2]]

\* raise ValueError(message)
RaisedWith(kind, message) == [raised |-> kind, message |-> message]

IsRaisedWith(value) == DOMAIN value = {"raised", "message"}

\* A plausible slip: only the medication mapping is validated.
post_init_medications_only(self) ==
    IF DOMAIN self.medications = {}
    THEN RaisedWith("ValueError", "At least one medication must be specified")
    ELSE None

\* PipelineConfig.__post_init__
post_init(self) ==
    IF DOMAIN self.medications = {}
    THEN RaisedWith("ValueError", "At least one medication must be specified")
    ELSE IF DOMAIN self.procedures = {}
    THEN RaisedWith("ValueError", "At least one procedure must be specified")
    ELSE None

\* PipelineConfig(...): the object, or the error of __post_init__.
PipelineConfig(condition_name, condition_abbreviation, icd10_code, medications, procedures, study_start, study_end) ==
    LET self == [condition_name |-> condition_name,
                 condition_abbreviation |-> condition_abbreviation,
                 icd10_code |-> icd10_code,
                 medications |-> medications,
                 procedures |-> procedures,
                 study_start |-> study_start,
                 study_end |-> study_end,
                 small_cell_value |-> SMALL_CELL_VALUE,
                 small_cell_imputation |-> SMALL_CELL_IMPUTATION]
        raised == post_init(self)
    IN  IF raised = None THEN self ELSE raised

InitConfig ==
    /\ pc = "config_given"
    /\ df = None
    /\ columns = None
    /\ result = None
    /\ result2 = None
    /\ STATE_TO_REGION = ImportedStateToRegion
    /\ build_pos = Len(LoopPairs)
    /\ df_meds = None
    /\ df_procs = None
    /\ \E meds \in SUBSET (1..MaxMappings) :
       \E procs \in SUBSET (1..MaxMappings) :
           args = [medications |-> MappingOf(TN_CONFIG_medications, meds),
                   procedures |-> MappingOf(TN_CONFIG_procedures, procs)]

\* result = PipelineConfig(..., medications=medications, procedures=procedures, ...)
NewPipelineConfig ==
    /\ pc = "config_given"
    /\ result' = PipelineConfig("Trigeminal Neuralgia", "TN", "G50.0",
                                args.medications, args.procedures,
                                "2022-11-28", "2025-11-27")
    /\ pc' = "config"
    /\ UNCHANGED <<df, columns, result2, STATE_TO_REGION, build_pos,
                   df_meds, df_procs, args>>

NextConfig == NewPipelineConfig

SpecConfig == InitConfig /\ [][NextConfig]_vars

(***************************************************************************)
(* The sentinel scenario: a table of one jurisdiction whose count cell may *)
(* be the sentinel goes through impute_small_cells and then create_table2, *)
(* which prints the count, the rate and the Wilson interval.               *)
(***************************************************************************)
ScenarioCells == {Str(SMALL_CELL_VALUE), Num(4), Num(5), Num(12)}

ScenarioTable(cell, n) ==
    [columns |-> <<"state", "carbamazepine_oxcarbazepine", "total">>,
     data |-> <<<<Str("Ohio")>>, <<cell>>, <<Num(n)>>>>]

\* The procedure table of the same jurisdiction, no procedure column kept.
ScenarioProcedures(n) ==
    [columns |-> <<"state", "total">>, data |-> <<<<Str("Ohio")>>, <<Num(n)>>>>]

InitScenario ==
    /\ pc = "scenario"
    /\ \E cell \in ScenarioCells, n \in (MaxJurisdictionTotal - 20)..MaxJurisdictionTotal :
           /\ df = ScenarioTable(cell, n)
           /\ df_procs = ScenarioProcedures(n)
    /\ columns = List(<<"carbamazepine_oxcarbazepine">>)
    /\ result = None
    /\ result2 = None
    /\ STATE_TO_REGION = ImportedStateToRegion
    /\ build_pos = Len(LoopPairs)
    /\ df_meds = None
    /\ args = None

\* df_meds = impute_small_cells(df, columns)
ImputeScenario ==
    /\ pc = "scenario"
    /\ df_meds' = impute_small_cells(df, columns, SMALL_CELL_VALUE,
                                     SMALL_CELL_IMPUTATION)
    /\ pc' = "scenario_imputed"
    /\ UNCHANGED <<df, columns, result, result2, STATE_TO_REGION, build_pos,
                   df_procs, args>>

\* result = create_table2(df_meds, df_procs)
Table2OfScenario ==
    /\ pc = "scenario_imputed"
    /\ result' = List(create_table2(df_meds, df_procs))
    /\ pc' = "scenario_table2"
    /\ UNCHANGED <<df, columns, result2, STATE_TO_REGION, build_pos,
                   df_meds, df_procs, args>>

NextScenario == ImputeScenario \/ Table2OfScenario

SpecScenario == InitScenario /\ [][NextScenario]_vars

(***************************************************************************)
(* The forward fill of the two cleaning functions, on exports of up to     *)
(* MaxFillRows rows whose other cells tell the rows apart.                 *)
(***************************************************************************)
RowNumbers(n) == [i \in 1..n |-> Num(i)]

MergedMedicationExport(st) ==
    [columns |-> <<STATE_COL, MEDICATION_COL, "Patients">>,
     data |-> <<st, [i \in DOMAIN st |-> Str("gabapentin")], RowNumbers(Len(st))>>]

MergedProcedureExport(st) ==
    [columns |-> <<STATE_COL, "SRS 61796 and 98">>,
     data |-> <<st, RowNumbers(Len(st))>>]

InitFill ==
    /\ \E n \in 1..MaxFillRows : \E st \in SeqsOfLen(StateCells, n) :
           \/ /\ pc = "medication"
              /\ df = MergedMedicationExport(st)
           \/ /\ pc = "procedure"
              /\ df = MergedProcedureExport(st)
    /\ columns = None
    /\ result = None
    /\ result2 = None
    /\ STATE_TO_REGION = ImportedStateToRegion
    /\ build_pos = Len(LoopPairs)
    /\ df_meds = None
    /\ df_procs = None
    /\ args = None

NextFill == CleanMedication \/ CleanProcedure

SpecFill == InitFill /\ [][NextFill]_vars

(***************************************************************************)
(* data_cleaning.py: calculate_percentages.  The totals are the column     *)
(* total_col, or the sum of the counts over the rows of the same group     *)
(* (transform('sum'); a row with a blank key belongs to no group), or the  *)
(* sum of all counts.                                                      *)
(***************************************************************************)
PercentageTotal(d, count_col, total_col, group_col, i) ==
    IF total_col # None THEN GetColumn(d, total_col.str)[i]
    ELSE IF group_col # None
    THEN (IF IsNaN(GetColumn(d, group_col.str)[i]) THEN NaN
          ELSE Num(GroupSum(d, group_col.str, GetColumn(d, group_col.str)[i].str,
                            count_col)))
    ELSE Num(SeriesSum(GetColumn(d, count_col)))

\* Lines 497-504: df['percentage'] = (df[count_col] / totals) * 100
calculate_percentages(d, count_col, total_col, group_col) ==
    SetColumn(d, "percentage",
        [i \in DOMAIN GetColumn(d, count_col) |->
            NpMul(NpDiv(CellToFloat(GetColumn(d, count_col)[i]),
                        CellToFloat(PercentageTotal(d, count_col, total_col,
                                                    group_col, i))),
                  FromInt(100))])

(***************************************************************************)
(* Objects.  A pandas table is an object and a call receives a reference   *)
(* to the caller's table: `df = df.copy()` and `df[mask]` build a new      *)
(* object and bind the local name to it, `df[col] = ...` and               *)
(* `df.columns = ...` change the object the name is bound to.  In an       *)
(* environment, heap[1] is the caller's table and df is the object the     *)
(* local name is bound to.                                                 *)
(***************************************************************************)
PassedFrame(d) == [heap |-> <<d>>, df |-> 1]

\* A plausible slip: the copy is left out and the name stays bound to the
\* caller's table.
NoCopy(env) == env

\* df = df.copy()
CopyFrame(env) ==
    [heap |-> Append(env.heap, env.heap[env.df]), df |-> Len(env.heap) + 1]

\* df = df[mask]: the rows selected, the table d, are a new object
SelectFrame(env, d) == [heap |-> Append(env.heap, d), df |-> Len(env.heap) + 1]

\* The assignments into df, after which the object is the table `edited`; a
\* statement that raises leaves the object as it is.
StoreFrame(env, edited) ==
    IF IsRaised(edited) THEN env ELSE [env EXCEPT !.heap[env.df] = edited]

\* df = df.copy(), then the assignments into df
CopyThenEdit(d, edited) == StoreFrame(CopyFrame(PassedFrame(d)), edited)

\* Lines 131-134 of generate_publication_materials.py: the columns that
\* create_table_per_capita adds to its copy.
PerCapitaColumns(d, populations) ==
    LET rows == [i \in DOMAIN GetColumn(d, "state") |->
                    PerCapitaRow(d, i, populations)]
    IN  SetColumn(SetColumn(SetColumn(d,
            "population", [i \in DOMAIN rows |-> rows[i].population]),
            "per_100k", [i \in DOMAIN rows |-> rows[i].per_100k]),
            "state_abbrev", [i \in DOMAIN rows |-> rows[i].state_abbrev])

Bool(b) == [bool |-> b]

\* One column of the three that a bar chart function adds to its table.
RECURSIVE BarColumn(_, _)
BarColumn(marked, field) ==
    IF marked = <<>> THEN <<>>
    ELSE <<IF field = "rate" THEN Head(marked).rate
           ELSE IF field = "sig" THEN Bool(Head(marked).sig)
           ELSE Bool(Head(marked).above)>>
             \o BarColumn(Tail(marked), field)

\* Lines 455 and 463: the rate column and the columns 'sig' and 'above'.
BarColumns(d, rate_col, marked) ==
    SetColumn(SetColumn(SetColumn(d,
        rate_col, BarColumn(marked, "rate")),
        "sig", BarColumn(marked, "sig")),
        "above", BarColumn(marked, "above"))

\* Line 453: df_meds = df_meds[~df_meds['state'].isin(STATES_TO_EXCLUDE)].copy()
\* and the assignments into it.
SelectThenEdit(d, kept, edited) ==
    StoreFrame(CopyFrame(SelectFrame(PassedFrame(d), kept)), edited)

(***************************************************************************)
(* A caller that holds a table and calls one operation on it, over and     *)
(* over.  df is the caller's table, args.passed what it was when the       *)
(* caller made it, result the value returned and result2 the table the     *)
(* operation worked on.                                                    *)
(***************************************************************************)
FrameCall(op, d) ==
    [op |-> op, passed |-> d, total_col |-> None, group_col |-> None,
     CENSUS_REGIONS |-> CENSUS_REGIONS,
     US_STATE_POPULATIONS |-> US_STATE_POPULATIONS]

TextColumn(n) == [i \in 1..n |-> Str(<<"1", "7">>)]

TwelveColumn(n) == [i \in 1..n |-> 12]

InitFrame ==
    /\ pc = "caller"
    /\ columns = None
    /\ result = None
    /\ result2 = None
    /\ STATE_TO_REGION = ImportedStateToRegion
    /\ build_pos = Len(LoopPairs)
    /\ df_meds = None
    /\ df_procs = None
    /\ \/ \E a \in SeqsOfLen(ImputeCells, MaxRows) :
              /\ df = ImputeTable(a, TextColumn(MaxRows))
              /\ args = FrameCall("impute_small_cells", df)
       \/ \E g \in SampleHeaders, h \in SampleHeaders :
              /\ df = NameTable(<<g, h>>)
              /\ args = FrameCall("clean_column_names", df)
       \/ \E n \in 1..MaxStateRows : \E st \in SeqsOfLen(RateStateCells, n) :
              /\ df = RatesTable(st, TwelveColumn(n))
              /\ args = FrameCall("add_census_region", df)
       \/ \E n \in 1..MaxRows : \E st \in SeqsOfLen(StateCells, n) :
              \/ /\ df = MergedMedicationExport(st)
                 /\ args = FrameCall("clean_medication_data", df)
              \/ /\ df = MergedProcedureExport(st)
                 /\ args = FrameCall("clean_procedure_data", df)
       \/ \E n \in 1..MaxBarRows : \E rows \in SeqsOfLen(BarRows, n) :
              \/ /\ df = BarTable(rows, "count")
                 /\ \E total_col \in {None, Str("total")},
                       group_col \in {None, Str("state")} :
                        args = [FrameCall("calculate_percentages", df)
                                   EXCEPT !.total_col = total_col,
                                          !.group_col = group_col]
              \/ /\ \E i \in 1..n : rows[i][1] \notin STATES_TO_EXCLUDE
                 /\ \/ /\ df = BarTable(rows, "carbamazepine_oxcarbazepine")
                       /\ args = FrameCall("create_figure2_bar", df)
                    \/ /\ df = BarTable(rows, "mvd")
                       /\ args = FrameCall("create_figure3_bar", df)
       \/ \E n \in 1..MaxStateRows : \E st \in SeqsOfLen(RateStateCells, n) :
              /\ df = add_census_region(RatesTable(st, TwelveColumn(n)), "state",
                                        STATE_TO_REGION)
              /\ args = FrameCall("create_table_per_capita", df)

\* The call of op returns: the caller's table is what object 1 holds now.
Returned(op, env, returned) ==
    /\ pc = "caller"
    /\ args.op = op
    /\ df' = env.heap[1]
    /\ result2' = env.heap[env.df]
    /\ result' = returned
    /\ pc' = "returned"
    /\ UNCHANGED <<columns, STATE_TO_REGION, build_pos, df_meds, df_procs, args>>

\* An operation that returns the copy it worked on.
ReturnedCopy(op, edited) == Returned(op, CopyThenEdit(df, edited), edited)

FrameImpute ==
    ReturnedCopy("impute_small_cells",
                 impute_small_cells(df, None, SMALL_CELL_VALUE, SMALL_CELL_IMPUTATION))

FrameCleanNames == ReturnedCopy("clean_column_names", clean_column_names(df))

FrameAddCensusRegion ==
    ReturnedCopy("add_census_region", add_census_region(df, "state", STATE_TO_REGION))

FrameCleanMedication ==
    ReturnedCopy("clean_medication_data",
                 clean_medication_data(df, STATE_COL, MEDICATION_COL))

FrameCleanProcedure ==
    ReturnedCopy("clean_procedure_data", clean_procedure_data(df, STATE_COL))

FrameCalculatePercentages ==
    ReturnedCopy("calculate_percentages",
                 calculate_percentages(df, "count", args.total_col, args.group_col))

\* The copy gets three columns; the table returned is a further object.
FrameTablePerCapita ==
    Returned("create_table_per_capita",
             CopyThenEdit(df, PerCapitaColumns(df, args.US_STATE_POPULATIONS)),
             create_table_per_capita(df, args.US_STATE_POPULATIONS))

\* A bar chart function of the column col: the chart is what it draws.  The
\* p-values of the z-tests are drawn, the same for every row.
FrameFigureBar(op, col, rate_col, decimals) ==
    LET kept          == DropExcluded(df)
        national_rate == NationalRate(kept, col)
        tested        == TestedBars(kept, col, national_rate)
    IN  \E p \in DrawnPValues :
            Returned(op,
                     SelectThenEdit(df, kept,
                         BarColumns(kept, rate_col,
                             MarkedBars(tested, national_rate,
                                        [i \in 1..MaxBarRows |-> p]))),
                     Chart(tested, national_rate, decimals,
                           [i \in 1..MaxBarRows |-> p]))

FrameFigure2Bar ==
    /\ args.op = "create_figure2_bar"
    /\ FrameFigureBar("create_figure2_bar", "carbamazepine_oxcarbazepine",
                      "carb_rate", 1)

FrameFigure3Bar ==
    /\ args.op = "create_figure3_bar"
    /\ FrameFigureBar("create_figure3_bar", "mvd", "mvd_rate", 2)

\* The caller goes on to call the operation again, on the table it holds.
CallAgain ==
    /\ pc = "returned"
    /\ pc' = "caller"
    /\ result' = None
    /\ result2' = None
    /\ UNCHANGED <<df, columns, STATE_TO_REGION, build_pos, df_meds, df_procs,
                   args>>

NextFrame ==
    \/ FrameImpute
    \/ FrameCleanNames
    \/ FrameAddCensusRegion
    \/ FrameCleanMedication
    \/ FrameCleanProcedure
    \/ FrameCalculatePercentages
    \/ FrameTablePerCapita
    \/ FrameFigure2Bar
    \/ FrameFigure3Bar
    \/ CallAgain

SpecFrame == InitFrame /\ [][NextFrame]_vars

(***************************************************************************)
(* src/data/us_state_populations.py: the population table of the data      *)
(* module and its lookup.  generate_publication_materials.py carries its   *)
(* own copy, US_STATE_POPULATIONS above.                                   *)
(***************************************************************************)
\* A plausible slip: a table of the fifty states, the District of Columbia
\* left out.
FiftyStatePopulations ==
    [st \in DOMAIN US_STATE_POPULATIONS \ {"District of Columbia"} |->
        US_STATE_POPULATIONS[st]]

data_US_STATE_POPULATIONS ==
    "Alabama" :> 5108468 @@ "Alaska" :> 733406 @@ "Arizona" :> 7431344 @@
    "Arkansas" :> 3067732 @@ "California" :> 38965193 @@
    "Colorado" :> 5877610 @@ "Connecticut" :> 3617176 @@
    "Delaware" :> 1031890 @@ "District of Columbia" :> 678972 @@
    "Florida" :> 23372215 @@ "Georgia" :> 11029227 @@ "Hawaii" :> 1435138 @@
    "Idaho" :> 1964726 @@ "Illinois" :> 12516863 @@ "Indiana" :> 6862199 @@
    "Iowa" :> 3207004 @@ "Kansas" :> 2940546 @@ "Kentucky" :> 4526154 @@
    "Louisiana" :> 4573749 @@ "Maine" :> 1395722 @@ "Maryland" :> 6180253 @@
    "Massachusetts" :> 7001399 @@ "Michigan" :> 10037261 @@
    "Minnesota" :> 5737915 @@ "Mississippi" :> 2939690 @@
    "Missouri" :> 6196156 @@ "Montana" :> 1132812 @@
    "Nebraska" :> 1978379 @@ "Nevada" :> 3194176 @@
    "New Hampshire" :> 1402054 @@ "New Jersey" :> 9290841 @@
    "New Mexico" :> 2114371 @@ "New York" :> 19571216 @@
    "North Carolina" :> 10835491 @@ "North Dakota" :> 783926 @@
    "Ohio" :> 11785935 @@ "Oklahoma" :> 4053824 @@ "Oregon" :> 4233358 @@
    "Pennsylvania" :> 12961683 @@ "Rhode Island" :> 1095962 @@
    "South Carolina" :> 5373555 @@ "South Dakota" :> 919318 @@
    "Tennessee" :> 7126489 @@ "Texas" :> 30503301 @@ "Utah" :> 3417734 @@
    "Vermont" :> 647464 @@ "Virginia" :> 8683619 @@
    "Washington" :> 7812880 @@ "West Virginia" :> 1770071 @@
    "Wisconsin" :> 5910955 @@ "Wyoming" :> 584057

\* get_population(state_name): US_STATE_POPULATIONS.get(state_name, None)
get_population(state_name) ==
    IF state_name \in DOMAIN data_US_STATE_POPULATIONS
    THEN Num(data_US_STATE_POPULATIONS[state_name])
    ELSE None

(***************************************************************************)
(* A jurisdiction is looked up in the region roster and in both population *)
(* tables: every jurisdiction of the roster, and names no table knows.     *)
(***************************************************************************)
LookedUp == Roster \cup {"Puerto Rico", "Guam", "alabama"}

InitPopulations ==
    /\ pc = "jurisdiction"
    /\ df = None
    /\ columns = None
    /\ result = None
    /\ result2 = None
    /\ STATE_TO_REGION = ImportedStateToRegion
    /\ build_pos = Len(LoopPairs)
    /\ df_meds = None
    /\ df_procs = None
    /\ \E state \in LookedUp : args = [state |-> state]

\* result = get_population(state); result2 = the region of the state and the
\* population that create_table_per_capita maps it to.
LookUpPopulation ==
    /\ pc = "jurisdiction"
    /\ result' = get_population(args.state)
    /\ result2' = [census_region |-> MapCell(Str(args.state), STATE_TO_REGION),
                   population |-> IF MapsKey(Str(args.state), US_STATE_POPULATIONS)
                                  THEN Num(US_STATE_POPULATIONS[args.state])
                                  ELSE NaN]
    /\ pc' = "population"
    /\ UNCHANGED <<df, columns, STATE_TO_REGION, build_pos, df_meds, df_procs,
                   args>>

NextPopulations == LookUpPopulation

SpecPopulations == InitPopulations /\ [][NextPopulations]_vars

(***************************************************************************)
(* data_cleaning.py: validate_totals.  The cells are whole numbers, so the *)
(* totals are kept as integers; the percent difference is the float the    *)
(* code computes.  A tolerance is given as the fraction num / den that its *)
(* literal stands for.                                                     *)
(***************************************************************************)
\* pd.to_numeric(series, errors='coerce'): a cell that cannot be read as a
\* number becomes blank.
ToNumericCoerce(series) ==
    [i \in DOMAIN series |->
        IF Coercible(series[i]) THEN CoerceCell(series[i]) ELSE NaN]

\* Lines 348-352: the sum over the listed columns that the table has.
RECURSIVE ColumnsTotal(_, _)
ColumnsTotal(d, value_columns) ==
    IF value_columns = <<>> THEN 0
    ELSE (IF HasColumn(d, Head(value_columns))
          THEN SeriesSum(ToNumericCoerce(GetColumn(d, Head(value_columns))))
          ELSE 0)
             + ColumnsTotal(d, Tail(value_columns))

Abs(n) == IF n < 0 THEN -n ELSE n

\* Line 359: (diff / expected_total) * 100 if expected_total > 0 else 0
PercentDifference(diff, expected_total) ==
    IF expected_total > 0
    THEN FMul(FDiv(FromInt(diff), FromInt(expected_total)), FromInt(100))
    ELSE Num(0)

\* Lines 361-364: the issue reported, if any.
TotalIssues(percent_difference, tolerance) ==
    IF NpLess(FMul(Literal(tolerance.num, tolerance.den), FromInt(100)),
              CellToFloat(percent_difference))
    THEN <<[text |-> "Total differs by {:.2f}% from expected",
            percent |-> FormatNumber(percent_difference, 2)]>>
    ELSE <<>>

\* Lines 356-364, with the total calculated.
CheckedTotal(total, expected_total, tolerance, percent_difference) ==
    [is_valid |-> TotalIssues(percent_difference, tolerance) = <<>>,
     results |-> [calculated_total |-> total,
                  expected_total |-> Num(expected_total),
                  difference |-> Num(Abs(total - expected_total)),
                  percent_difference |-> percent_difference,
                  issues |-> TotalIssues(percent_difference, tolerance)]]

validate_totals(d, value_columns, expected_total, tolerance) ==
    IF expected_total = None
    THEN [is_valid |-> TRUE,
          results |-> [calculated_total |-> ColumnsTotal(d, value_columns),
                       expected_total |-> None,
                       difference |-> None,
                       percent_difference |-> None,
                       issues |-> <<>>]]
    ELSE CheckedTotal(ColumnsTotal(d, value_columns), expected_total.num, tolerance,
                      PercentDifference(
                          Abs(ColumnsTotal(d, value_columns) - expected_total.num),
                          expected_total.num))

(***************************************************************************)
(* The inputs of the validation runs: tables of two rows with the columns  *)
(* "count" and "other".                                                    *)
(***************************************************************************)
TotalCells ==
    {Num(0), Num(5), Num(12), Str(<<"1", "7">>), Str(SMALL_CELL_VALUE), NaN}

TotalsTable(a, b) ==
    [columns |-> <<"count", "other">>,
     data |-> <<<<a, b>>, <<Num(1), Str(<<"n", "/", "a">>)>>>>]

\* "pct" is a header the tables do not have.
ValueColumnLists == {<<"count">>, <<"count", "other">>, <<"pct", "count">>, <<"pct">>}

Tolerances == {[num |-> 5, den |-> 100], [num |-> 1, den |-> 2]}

InitTotals ==
    /\ pc = "validate"
    /\ \E a \in TotalCells, b \in {Num(5), NaN} : df = TotalsTable(a, b)
    /\ columns \in {List(l) : l \in ValueColumnLists}
    /\ result = None
    /\ result2 = None
    /\ STATE_TO_REGION = ImportedStateToRegion
    /\ build_pos = Len(LoopPairs)
    /\ df_meds = None
    /\ df_procs = None
    /\ \E expected_total \in {None} \cup {Num(n) : n \in 0..MaxExpectedTotal},
          tolerance \in Tolerances :
           args = [expected_total |-> expected_total, tolerance |-> tolerance]

\* result = validate_totals(df, columns, expected_total=..., tolerance=...)
ValidateTotals ==
    /\ pc = "validate"
    /\ result' = validate_totals(df, columns.list, args.expected_total,
                                 args.tolerance)
    /\ pc' = "validated"
    /\ UNCHANGED <<df, columns, result2, STATE_TO_REGION, build_pos,
                   df_meds, df_procs, args>>

NextTotals == ValidateTotals

SpecTotals == InitTotals /\ [][NextTotals]_vars

(***************************************************************************)
(* check_missing_states on tables of the whole roster: the jurisdictions   *)
(* in the order of CENSUS_REGIONS, some of them dropped, and further rows  *)
(* with a blank, a territory, a jurisdiction once more or a name in lower  *)
(* case.                                                                   *)
(***************************************************************************)
DropCandidates == <<"Wyoming", "Alabama", "Ohio", "District of Columbia">>

ExtraStateCells == {NaN, Str("Puerto Rico"), Str("Ohio"), Str("alabama")}

MaxExtraRows == 2

\* The roster in the order of the loop of analysis_config.py, without the
\* states dropped.
RosterCells(dropped) ==
    SelectSeq([i \in DOMAIN LoopPairs |-> Str(LoopPairs[i][2])],
              LAMBDA cell : cell.str \notin dropped)

RosterTable(dropped, extra) ==
    [columns |-> <<"state", "total">>,
     data |-> <<extra \o RosterCells(dropped),
                [i \in 1..(Len(extra) + Len(RosterCells(dropped))) |-> Num(12)]>>]

InitMissing ==
    /\ pc = "roster"
    /\ \E dropped \in SUBSET {DropCandidates[i] : i \in 1..MaxDropped} :
       \E n \in 0..MaxExtraRows : \E extra \in SeqsOfLen(ExtraStateCells, n) :
           df = RosterTable(dropped, extra)
    /\ columns = None
    /\ result = None
    /\ result2 = None
    /\ STATE_TO_REGION = ImportedStateToRegion
    /\ build_pos = Len(LoopPairs)
    /\ df_meds = None
    /\ df_procs = None
    /\ args = None

\* result = check_missing_states(df)
CheckRoster ==
    /\ pc = "roster"
    /\ result' = List(check_missing_states(df, "state", STATE_TO_REGION))
    /\ pc' = "roster_checked"
    /\ UNCHANGED <<df, columns, result2, STATE_TO_REGION, build_pos,
                   df_meds, df_procs, args>>

NextMissing == CheckRoster

SpecMissing == InitMissing /\ [][NextMissing]_vars

(***************************************************************************)
(* Claims about impute_small_cells, checked under SpecImpute.              *)
(***************************************************************************)
Sentinel == Str(SMALL_CELL_VALUE)

\* The headers the call works on: the listed ones the table has.
TargetColumns(d, cols) ==
    IF cols = None THEN Range(d.columns)
    ELSE Range(cols.list) \cap Range(d.columns)

Rows(d, col) == DOMAIN GetColumn(d, col)

Imputed == pc \in {"imputed", "reimputed"}

\* A cell that can be read as a number: a number, or a str that is a numeral.
Readable(cell) == IsNum(cell) \/ (IsStr(cell) /\ IsNumeral(cell.str))

\* Every cell of the series is the sentinel, a number, a numeral or blank.
AllReadable(series) ==
    \A i \in DOMAIN series :
        series[i] = Sentinel \/ Readable(series[i]) \/ IsNaN(series[i])

\* C1: after impute_small_cells with the default configuration, every cell of
\* a target column that held the sentinel "10 or fewer" holds 5, and no cell
\* of a target column equals the sentinel.
C1_SentinelBecomesFive ==
    Imputed =>
        \A col \in TargetColumns(df, columns) :
            \A i \in Rows(df, col) :
                /\ GetColumn(df, col)[i] = Sentinel
                       => GetColumn(result, col)[i] = Num(SMALL_CELL_IMPUTATION)
                /\ GetColumn(result, col)[i] # Sentinel

\* A target column held the sentinel beside a cell that is not a number.
C1_Witness ==
    /\ pc = "imputed"
    /\ \E col \in TargetColumns(df, columns) :
           /\ \E i \in Rows(df, col) : GetColumn(df, col)[i] = Sentinel
           /\ \E i \in Rows(df, col) : GetColumn(df, col)[i] = Str(NearSentinel)

\* C2: imputation is idempotent: imputing the imputed table again gives the
\* imputed table, cell for cell.
C2_Idempotent == pc = "reimputed" => result2 = result

\* The first call changed the table, and the second call has returned.
C2_Witness == pc = "reimputed" /\ result # df /\ result2 = result

\* C3 as stated: every non-sentinel cell of a target column that can be read
\* as a number becomes that number, and every one that cannot is left as it
\* was, whatever the other cells of the column hold.
C3_PerCellCoercion ==
    Imputed =>
        \A col \in TargetColumns(df, columns) :
            \A i \in Rows(df, col) :
                LET cell == GetColumn(df, col)[i]
                    out  == GetColumn(result, col)[i]
                IN  cell # Sentinel =>
                        IF Readable(cell) THEN out = CoerceCell(cell) ELSE out = cell

\* C3 as amended: the coercion is decided per column.  When every cell of a
\* target column is the sentinel, a number, a numeral or blank, each
\* non-sentinel cell becomes its number (a blank stays blank); when the
\* column has a cell that cannot be read as a number, every non-sentinel cell
\* of the column, numerals included, is left exactly as it was.
C3_PerColumnCoercion ==
    Imputed =>
        \A col \in TargetColumns(df, columns) :
            \A i \in Rows(df, col) :
                LET cell == GetColumn(df, col)[i]
                    out  == GetColumn(result, col)[i]
                IN  cell # Sentinel =>
                        IF AllReadable(GetColumn(df, col))
                        THEN out = CoerceCell(cell)
                        ELSE out = cell

\* A target column holds a numeral, a cell that is not a number, and the
\* numeral is still text after the call.
C3_Witness ==
    /\ pc = "imputed"
    /\ \E col \in TargetColumns(df, columns) :
           \E i, j \in Rows(df, col) :
               /\ GetColumn(df, col)[i] = Str(<<"1", "7">>)
               /\ GetColumn(result, col)[i] = Str(<<"1", "7">>)
               /\ GetColumn(df, col)[j] = Str(<<"n", "/", "a">>)
               /\ GetColumn(result, col)[j] = Str(<<"n", "/", "a">>)

\* C4: when the target list names a column the table does not have, the name
\* is skipped: the result has the table's headers, every listed column that
\* exists is imputed, and every column outside the list is unchanged.
C4_MissingTargetSkipped ==
    (Imputed /\ columns # None
       /\ \E c \in Range(columns.list) : ~HasColumn(df, c)) =>
        /\ result.columns = df.columns
        /\ \A col \in Range(df.columns) :
               IF col \in Range(columns.list)
               THEN GetColumn(result, col) =
                        ImputeColumn(GetColumn(df, col), SMALL_CELL_VALUE,
                                     SMALL_CELL_IMPUTATION)
               ELSE GetColumn(result, col) = GetColumn(df, col)

\* The list named the missing "pct" before "total", "total" held the
\* sentinel and was imputed, and the unlisted column was left alone.
C4_Witness ==
    /\ pc = "imputed"
    /\ columns = List(<<"count", "pct", "total">>)
    /\ \E i \in Rows(df, "total") :
           /\ GetColumn(df, "total")[i] = Sentinel
           /\ GetColumn(result, "total")[i] = Num(SMALL_CELL_IMPUTATION)
    /\ ~HasColumn(result, "pct")

(***************************************************************************)
(* Claims about clean_column_names, checked under SpecNames.               *)
(***************************************************************************)
Cleaned == pc \in {"cleaned", "recleaned"}

\* The whitespace characters of the modelled headers: blank, tab, line break.
Whitespace == {" ", "\t", "\n"}

Punctuation == {"-", "/", "(", ")", ",", "."}

HasChar(s, S) == \E i \in DOMAIN s : s[i] \in S

StartsOrEndsWithUnderscore(s) == Len(s) > 0 /\ (s[1] = "_" \/ s[Len(s)] = "_")

\* C5: the name clean_column_names produces for a header holds no upper-case
\* letter, no whitespace, none of - / ( ) , . , no two consecutive
\* underscores, and neither starts nor ends with an underscore.
C5_CanonicalToken ==
    Cleaned =>
        \A i \in DOMAIN result.columns :
            LET name == result.columns[i].str
            IN  /\ ~\E k \in DOMAIN name : IsUpper(name[k])
                /\ ~HasChar(name, Whitespace)
                /\ ~HasChar(name, Punctuation)
                /\ ~HasDoubleUnderscore(name)
                /\ ~StartsOrEndsWithUnderscore(name)

\* A character that is no separator of the claim and no underscore.
IsWordChar(c) == c \notin Whitespace \cup Punctuation \cup {"_"}

WordCharsUpTo(s, i) == Cardinality({k \in 1..i : IsWordChar(s[k])})

\* The position of the k-th word character of s (0 when s has fewer).
NthWordChar(s, k) ==
    IF \E p \in DOMAIN s : IsWordChar(s[p]) /\ WordCharsUpTo(s, p) = k
    THEN CHOOSE p \in DOMAIN s : IsWordChar(s[p]) /\ WordCharsUpTo(s, p) = k
    ELSE 0

\* C6: every maximal run of whitespace and of the characters - / ( ) , . that
\* lies between two other characters of a header is replaced by exactly one
\* underscore: the two characters around the run are, in the new name,
\* separated by one underscore and nothing else.
C6_RunBecomesOneUnderscore ==
    Cleaned =>
        \A c \in DOMAIN df.columns :
            IsStr(df.columns[c]) =>
                LET h    == df.columns[c].str
                    name == result.columns[c].str
                IN  \A i, j \in DOMAIN h :
                        ( /\ i + 1 < j
                          /\ IsWordChar(h[i])
                          /\ IsWordChar(h[j])
                          /\ \A m \in (i + 1)..(j - 1) :
                                 h[m] \in Whitespace \cup Punctuation ) =>
                            LET k == WordCharsUpTo(h, i)
                                p == NthWordChar(name, k)
                                q == NthWordChar(name, k + 1)
                            IN  p > 0 /\ q = p + 2 /\ name[p + 1] = "_"

\* C7: header normalization is idempotent: clean_column_names applied to its
\* own output changes nothing.
C7_Idempotent == pc = "recleaned" => result2 = result

\* A header whose separators needed more than one pass of the collapsing
\* loop was cleaned twice.
C7_Witness ==
    /\ pc = "recleaned"
    /\ \E i \in DOMAIN df.columns :
           /\ IsStr(df.columns[i])
           /\ HasDoubleUnderscore(StrReplaceDouble(ReplaceSpecials(df.columns[i].str)))
           /\ result.columns[i] # df.columns[i]
    /\ result2 = result

(***************************************************************************)
(* Claims about the label lookups, checked under SpecLabels.               *)
(***************************************************************************)
MedicationCleaned == pc \in {"medication_cleaned", "medication_recleaned"}

ProcedureCleaned == pc \in {"procedure_cleaned", "procedure_recleaned"}

IsItem(dict, key, value) == \E i \in DOMAIN dict : dict[i] = <<key, value>>

\* C8: a label that is a key of the lookup table is replaced by its canonical
\* label and a label that is no key passes through unchanged, for the values
\* of the medication column and for the headers of a procedure table; a
\* second application of the lookup changes nothing.
C8_LookupOrPassThrough ==
    /\ (MedicationCleaned /\ HasColumn(df, MEDICATION_COL)) =>
           \A i \in Rows(df, MEDICATION_COL) :
               LET cell == GetColumn(df, MEDICATION_COL)[i]
                   out  == GetColumn(result, MEDICATION_COL)[i]
               IN  IF IsStr(cell) /\ cell.str \in DictKeys(medication_mapping)
                   THEN IsStr(out) /\ IsItem(medication_mapping, cell.str, out.str)
                   ELSE out = cell
    /\ ProcedureCleaned =>
           /\ DOMAIN result.columns = DOMAIN df.columns
           /\ \A i \in DOMAIN df.columns :
                  IF df.columns[i] \in DictKeys(procedure_mapping)
                  THEN IsItem(procedure_mapping, df.columns[i], result.columns[i])
                  ELSE result.columns[i] = df.columns[i]
    /\ (pc = "medication_recleaned" /\ HasColumn(df, MEDICATION_COL)) =>
           GetColumn(result2, MEDICATION_COL) = GetColumn(result, MEDICATION_COL)
    /\ pc = "procedure_recleaned" => result2.columns = result.columns

\* A medication column held a raw spelling beside an unknown label: the first
\* was replaced, the second kept, and the second call has returned.
C8_Witness ==
    /\ pc = "medication_recleaned"
    /\ HasColumn(df, MEDICATION_COL)
    /\ \E i, j \in Rows(df, MEDICATION_COL) :
           /\ GetColumn(df, MEDICATION_COL)[i] = Str("Carbmazapine or Oxcarbmazapine")
           /\ GetColumn(result, MEDICATION_COL)[i] = Str("Carbamazepine/Oxcarbazepine")
           /\ GetColumn(df, MEDICATION_COL)[j] = Str("Aspirin")
           /\ GetColumn(result, MEDICATION_COL)[j] = Str("Aspirin")

\* Two raw labels of the dict that map to one canonical label.
Collisions(dict) ==
    { p \in DictKeys(dict) \X DictKeys(dict) :
        p[1] # p[2] /\ DictGet(dict, p[1]) = DictGet(dict, p[2]) }

\* C9: no two distinct raw procedure labels map to one canonical label; the
\* only raw medication labels sharing a canonical label are the two spellings
\* of carbamazepine/oxcarbazepine; so clean_procedure_data never gives two
\* different known columns of a table the same name.
C9_NoCollision ==
    /\ Collisions(procedure_mapping) = {}
    /\ Collisions(medication_mapping) =
           { <<"Carbmazapine or Oxcarbmazapine", "Carbamazepine or Oxcarbazepine">>,
             <<"Carbamazepine or Oxcarbazepine", "Carbmazapine or Oxcarbmazapine">> }
    /\ ProcedureCleaned =>
           \A i, j \in DOMAIN df.columns :
               ( /\ df.columns[i] # df.columns[j]
                 /\ df.columns[i] \in DictKeys(procedure_mapping)
                 /\ df.columns[j] \in DictKeys(procedure_mapping) ) =>
                   result.columns[i] # result.columns[j]

\* A table holding every known procedure column was renamed, and its six
\* new headers are six different names.
C9_Witness ==
    /\ pc = "procedure_cleaned"
    /\ df.columns = <<STATE_COL>> \o KnownProcedureColumns
    /\ result.columns[2] = "MVD"
    /\ Cardinality(Range(result.columns)) = Len(df.columns)

(***************************************************************************)
(* Claims about the geography reference, checked under SpecGeo.            *)
(***************************************************************************)
RegionNames == {CENSUS_REGIONS[i][1] : i \in DOMAIN CENSUS_REGIONS}

\* The regions (by position) that list the state.
RegionsListing(st) ==
    {i \in DOMAIN CENSUS_REGIONS : st \in Range(CENSUS_REGIONS[i][2])}

Loaded == pc \in {"loaded", "regions_added"}

Unmapped(d) ==
    {GetColumn(d, "state")[i].str : i \in
        {k \in DOMAIN GetColumn(d, "state") :
            /\ IsStr(GetColumn(d, "state")[k])
            /\ GetColumn(d, "state")[k].str \notin DOMAIN STATE_TO_REGION}}

\* The jurisdictions listed by the report the caller has received.
Surfaced == IF result2 = None THEN {} ELSE Range(result2.list)

\* The rows of a table that belong to some group of the aggregation.
Aggregated(d) ==
    {i \in DOMAIN GetColumn(d, "census_region") : IsStr(GetColumn(d, "census_region")[i])}

\* C11: when the caller has asked for the report on the medication table and
\* Table 3 has been made from a table with a row whose jurisdiction the region
\* mapping lacks, that row is left out of the regional sums and its jurisdiction
\* is in the list the caller was given.
C11_UnmappedSurfaced ==
    (pc = "table3" /\ ~IsRaised(result) /\ result2 # None) =>
        \A u \in Unmapped(df_meds) :
            /\ \A i \in Aggregated(df_meds) : GetColumn(df_meds, "state")[i] # Str(u)
            /\ u \in Surfaced

\* The region rows of Table 1: what follows the three heading rows.
RegionRows(rows) == SubSeq(rows, 4, Len(rows))

RECURSIVE SumN(_)
SumN(rows) == IF Len(rows) = 0 THEN 0 ELSE ParseNumeral(Head(rows).N) + SumN(Tail(rows))

\* C12: the regional totals of Table 1 add up to the total of all jurisdiction
\* rows, the total that Table 1 reports and takes the percentages of.
C12_RegionTotalsAddUp ==
    pc = "table1" =>
        /\ ParseNumeral(result.list[1].N) = SeriesSum(GetColumn(df_meds, "total"))
        /\ SumN(RegionRows(result.list)) = SeriesSum(GetColumn(df_meds, "total"))

\* The permutations of 1..n.
Perms(n) == {p \in [1..n -> 1..n] : \A i, j \in 1..n : p[i] = p[j] => i = j}

RowCount(d) == Len(d.data[1])

\* The table with its rows in the order p.
PermuteRows(d, p) ==
    [d EXCEPT !.data = [j \in DOMAIN d.data |-> [i \in DOMAIN d.data[j] |-> d.data[j][p[i]]]]]

\* C13: whatever the order of the jurisdiction rows, the per-region sums of every
\* category and of the total are the same, and so is Table 3.
C13_OrderInvariant ==
    pc = "table3" =>
        \A p \in Perms(RowCount(df_meds)), q \in Perms(RowCount(df_procs)) :
            /\ RegionAggregate(PermuteRows(df_meds, p), med_cols)
                   = RegionAggregate(df_meds, med_cols)
            /\ RegionAggregate(PermuteRows(df_procs, q), proc_cols)
                   = RegionAggregate(df_procs, proc_cols)
            /\ create_table3(PermuteRows(df_meds, p), PermuteRows(df_procs, q)) = result

\* Table 3 was made from two rows of one region with different counts.
C13_Witness ==
    /\ pc = "table3"
    /\ ~IsRaised(result)
    /\ RowCount(df_meds) = 2
    /\ GetColumn(df_meds, "state") = <<Str("Alabama"), Str("Kentucky")>>
    /\ HasColumn(df_meds, "gabapentin")
    /\ GetColumn(df_meds, "gabapentin") = <<Num(0), Num(5)>>
    /\ GetColumn(df_meds, "total") = <<Num(5), Num(12)>>
    /\ result.list[1].n_patients = <<"1", "7">>

(***************************************************************************)
(* Claims about proportion_ci and z_test_proportion, checked under         *)
(* SpecStats.                                                              *)
(***************************************************************************)
\* -1, 0 or 1 as the value v (an int or a float, not negative) is below, at
\* or above the rational num / den, compared exactly.
CmpRational(v, num, den) ==
    IF IsNum(v)
    THEN BigCmp(BigFromInt(v.num * den), BigFromInt(num))
    ELSE IF FIsZero(v) THEN BigCmp(<<>>, BigFromInt(num))
    ELSE IF v.exp >= 0
    THEN BigCmp(BigShl(BigMul(v.man, BigFromInt(den)), v.exp), BigFromInt(num))
    ELSE BigCmp(BigMul(v.man, BigFromInt(den)), BigShl(BigFromInt(num), -v.exp))

NotNegative(v) == IF IsNum(v) THEN v.num >= 0 ELSE v.sign = 0 \/ FIsZero(v)

\* the interval of the call holds the observed percentage 100 * x / n and
\* lies inside [0, 100]
IntervalHoldsEstimate ==
    LET lower == result.list[1]
        upper == result.list[2]
    IN  /\ NotNegative(lower)
        /\ CmpRational(lower, 100 * args.x, args.n) <= 0
        /\ CmpRational(upper, 100 * args.x, args.n) >= 0
        /\ CmpRational(upper, 100, 1) <= 0

\* C14: for every total n > 0 and every count x with 0 <= x <= n, the
\* interval returned by proportion_ci satisfies lower <= x/n <= upper, with
\* both bounds inside [0, 100] in the percentage form the function returns.
C14_IntervalHoldsEstimate ==
    (pc = "proportion_ci" /\ args.n > 0) => IntervalHoldsEstimate

\* The same away from the two ends x = 0 and x = n, where it holds.
C14_InteriorHoldsEstimate ==
    (pc = "proportion_ci" /\ args.n > 0 /\ 0 < args.x /\ args.x < args.n)
        => IntervalHoldsEstimate

\* C15: for every count x, proportion_ci(x, 0) returns the pair (0, 0) and
\* raises no error.
C15_ZeroTotalGivesZeroPair ==
    (pc = "proportion_ci" /\ args.n = 0) => result = List(<<Num(0), Num(0)>>)

C15_Witness ==
    pc = "proportion_ci" /\ args.n = 0 /\ args.x > 0 /\ result = List(<<Num(0), Num(0)>>)

\* p0 lies strictly between 0 and 1
InsideUnitInterval(p0) ==
    ~FIsZero(p0) /\ p0.sign = 0 /\ FCmp(p0, FromInt(1)) < 0

\* C20: for every count x and every reference proportion p0 in (0, 1),
\* z_test_proportion(x, 0, p0) returns z = 0 and p = 1.0, without dividing
\* by zero and without raising.
C20_ZeroTotalGivesNullTest ==
    (pc = "z_test_proportion" /\ args.n = 0 /\ InsideUnitInterval(args.p0))
        => result = List(<<Num(0), FromInt(1)>>)

(***************************************************************************)
(* Claims about create_table_per_capita, checked under SpecPerCapita.      *)
(***************************************************************************)
\* the rows of df_meds whose jurisdiction has a population that is zero or
\* negative
NonPositivePopulationRows ==
    {i \in DOMAIN GetColumn(df_meds, "state") :
        LET state == GetColumn(df_meds, "state")[i].str
        IN  /\ state \in DOMAIN args.US_STATE_POPULATIONS
            /\ args.US_STATE_POPULATIONS[state] <= 0}

\* the rows of df_meds whose jurisdiction has no entry in the population
\* table
NoPopulationRows ==
    {i \in DOMAIN GetColumn(df_meds, "state") :
        GetColumn(df_meds, "state")[i].str \notin DOMAIN args.US_STATE_POPULATIONS}

C17_MissingPopulationFails ==
    (pc = "table_per_capita" /\ NoPopulationRows # {})
        => /\ IsRaised(result)
           /\ ~\E i \in DOMAIN result.list :
                  IsNaN(result.list[i].population) \/ IsNaN(result.list[i].per_100k)

(***************************************************************************)
(* Claims about create_table4, checked under SpecTable4.                   *)
(***************************************************************************)
\* a table of counts with a row or a column of zeros only
Degenerate(observed) ==
    /\ Len(observed) > 0
    /\ \/ \E i \in DOMAIN observed : \A j \in DOMAIN observed[i] : observed[i][j] = 0
       \/ \E j \in DOMAIN observed[1] : \A i \in DOMAIN observed : observed[i][j] = 0

\* a table of counts with at least one row, every row and every column of
\* which has a positive sum
PositiveMarginals(observed) == Len(observed) > 0 /\ ~Degenerate(observed)

\* C18: when the region-by-category table has a row or a column whose
\* counts are all zero, create_table4 reports an input-contract violation
\* before the chi-square routine is called: the routine is never invoked on
\* such a table and no chi-square row is written.
C18_DegenerateTableRejectedBeforeTest ==
    (/\ pc = "table4"
     /\ \/ Degenerate(Observed(df_meds, table4_med_cols))
        \/ Degenerate(Observed(df_procs, table4_proc_cols)))
        => /\ IsRaised(result)
           /\ \A k \in DOMAIN result2.list : ~Degenerate(result2.list[k])

\* the regions named in the census_region column of d
RegionsOf(d) ==
    {GetColumn(d, "census_region")[i].str :
        i \in {k \in DOMAIN GetColumn(d, "census_region") :
                  IsStr(GetColumn(d, "census_region")[k])}}

\* the columns of d that are listed in cols
ListedColumnsOf(d, cols) ==
    {d.columns[j] : j \in DOMAIN d.columns} \cap {cols[j] : j \in DOMAIN cols}

ExpectedDf(d, cols) ==
    (Cardinality(RegionsOf(d)) - 1) * (Cardinality(ListedColumnsOf(d, cols)) - 1)

\* C19: for every contingency table with r regions and c category columns
\* and positive marginals, the degrees of freedom reported in Table 4 equal
\* (r-1)*(c-1), where c counts only the listed category columns that are
\* present in the input data.
C19_DegreesOfFreedom ==
    (/\ pc = "table4"
     /\ PositiveMarginals(Observed(df_meds, table4_med_cols))
     /\ PositiveMarginals(Observed(df_procs, table4_proc_cols)))
        => /\ ~IsRaised(result)
           /\ result.list[1].df = ExpectedDf(df_meds, table4_med_cols)
           /\ result.list[2].df = ExpectedDf(df_procs, table4_proc_cols)

C19_Witness ==
    /\ pc = "table4"
    /\ ~IsRaised(result)
    /\ PositiveMarginals(Observed(df_meds, table4_med_cols))
    /\ Cardinality(RegionsOf(df_meds)) = 2
    /\ Cardinality(ListedColumnsOf(df_meds, table4_med_cols)) = 3
    /\ result.list[1].df = 2
    /\ result.list[2].df = 1

(***************************************************************************)
(* Claims about format_pvalue, checked under SpecPValue.                   *)
(***************************************************************************)
\* The text is one digit, the point and three digits, and the number it
\* names is within half a thousandth of k ten-thousandths.
ThreeDecimalsOf(text, k) ==
    /\ Len(text) = 5
    /\ text[2] = "."
    /\ \A i \in {1, 3, 4, 5} : \E d \in DOMAIN Digits : Digits[d] = text[i]
    /\ LET shown == ParseNumeral(<<text[1], text[3], text[4], text[5]>>)
       IN  10 * shown - k <= 5 /\ k - 10 * shown <= 5

\* C21: for every p-value p in [0,1] of the model, format_pvalue(p) is the
\* text "<0.001" when p < 0.001 and otherwise p with exactly three digits
\* after the decimal point; 0.0004 gives "<0.001" and 0.0421 gives "0.042".
C21_FormatPValue ==
    pc = "pvalue" =>
        /\ \A k \in PValueTenThousandths :
               args.p = Literal(k, 10000) =>
                   IF k < 10 THEN result = Str(<<"<", "0", ".", "0", "0", "1">>)
                   ELSE ThreeDecimalsOf(result.str, k)
        /\ args.p = Literal(4, 10000) => result = Str(<<"<", "0", ".", "0", "0", "1">>)
        /\ args.p = Literal(421, 10000) => result = Str(<<"0", ".", "0", "4", "2">>)

\* 0.0421 was formatted as "0.042".
C21_Witness ==
    /\ pc = "pvalue"
    /\ args.p = Literal(421, 10000)
    /\ result = Str(<<"0", ".", "0", "4", "2">>)

(***************************************************************************)
(* Claims about the significance flags of Table 4 and of the state bar     *)
(* charts, checked under SpecFlags.                                        *)
(***************************************************************************)
\* The p-value p, a float or nan, is strictly below 1/20 (compared exactly).
BelowFiveHundredths(p) == IsFloat(p) /\ CmpRational(p, 1, 20) < 0

FlagOf(p) == IF BelowFiveHundredths(p) THEN "Significant" ELSE "Not Significant"

\* C22: every test result is flagged at the threshold 0.05: a Table 4 row is
\* labelled 'Significant' exactly when its p-value is strictly below 0.05 and
\* 'Not Significant' otherwise, and a bar of a state chart is marked
\* significant exactly when the p-value of its z-test is strictly below 0.05.
C22_FlaggedAtThreshold ==
    /\ (pc = "table4" /\ ~IsRaised(result)) =>
           /\ result.list[1].Result
                  = FlagOf(Chi2PValue(RegionTest(df_meds, table4_med_cols), args.sf_med))
           /\ result.list[2].Result
                  = FlagOf(Chi2PValue(RegionTest(df_procs, table4_proc_cols), args.sf_proc))
    /\ pc \in {"figure2_bar", "figure3_bar"} =>
           \A i \in DOMAIN result.bars :
               /\ result.bars[i].sig <=> BelowFiveHundredths(result.bars[i].p)
               /\ result.bars[i].color = "#999999" <=> ~result.bars[i].sig
               /\ \/ result.bars[i].p = FromInt(1)
                  \/ \E k \in DOMAIN args.sf : result.bars[i].p = args.sf[k]

\* A chart was drawn with a bar of p-value 0.0421, marked, and a bar of
\* p-value 0.05, not marked.
C22_Witness ==
    /\ pc = "figure2_bar"
    /\ \E i, j \in DOMAIN result.bars :
           /\ result.bars[i].p = Literal(421, 10000)
           /\ result.bars[i].sig
           /\ result.bars[j].p = Literal(500, 10000)
           /\ ~result.bars[j].sig

(***************************************************************************)
(* Claims about the states left out of the charts, checked under SpecBars. *)
(***************************************************************************)
\* The row of Table 2 with the given treatment name.
Table2RowOf(table, name) ==
    CHOOSE i \in DOMAIN table : table[i].Treatment = name

\* The chart draws no state of STATES_TO_EXCLUDE, its national average is
\* the rate over all rows of the table d, and its label shows the rate that
\* Table 2 prints for the treatment.
AverageOverAllStates(chart, d, col, name) ==
    /\ \A i \in DOMAIN chart.bars : chart.bars[i].state.str \notin STATES_TO_EXCLUDE
    /\ chart.national_rate = NationalRate(d, col)
    /\ chart.label = result2.list[Table2RowOf(result2.list, name)].Rate

\* C25: a state of STATES_TO_EXCLUDE has no bar in the state bar charts, but
\* the national average that the charts draw and test each state against is
\* computed over all states, the excluded ones included, and equals the
\* national rate of Table 2.
C25_NationalAverageOverAllStates ==
    /\ pc = "figure2_bar" =>
           AverageOverAllStates(result, df_meds, "carbamazepine_oxcarbazepine",
                                med_names["carbamazepine_oxcarbazepine"])
    /\ pc = "figure3_bar" =>
           AverageOverAllStates(result, df_procs, "mvd", proc_names["mvd"])

(***************************************************************************)
(* Claims about PipelineConfig, checked under SpecConfig.                  *)
(***************************************************************************)
\* C23: constructing a PipelineConfig with an empty medication mapping or an
\* empty procedure mapping raises a ValueError whose message names a
\* requirement that the mappings given violate, and no object is produced;
\* with both mappings non-empty the object is produced, holding the two
\* mappings.
C23_EmptyMappingRejected ==
    pc = "config" =>
        IF DOMAIN args.medications = {} \/ DOMAIN args.procedures = {}
        THEN /\ IsRaisedWith(result)
             /\ result.raised = "ValueError"
             /\ \/ /\ DOMAIN args.medications = {}
                   /\ result.message = "At least one medication must be specified"
                \/ /\ DOMAIN args.procedures = {}
                   /\ result.message = "At least one procedure must be specified"
        ELSE /\ ~IsRaisedWith(result)
             /\ result.medications = args.medications
             /\ result.procedures = args.procedures

\* A construction with medications and no procedure was refused.
C23_Witness ==
    /\ pc = "config"
    /\ DOMAIN args.medications # {}
    /\ DOMAIN args.procedures = {}
    /\ IsRaisedWith(result)
    /\ result.message = "At least one procedure must be specified"

(***************************************************************************)
(* Claims about the sentinel scenario, checked under SpecScenario.         *)
(***************************************************************************)
\* The scenario: the count cell is the sentinel and the total is 50.
SentinelOfFifty ==
    /\ df.data[2][1] = Str(SMALL_CELL_VALUE)
    /\ df.data[3][1] = Num(50)

\* The imputed count is 5 and Table 2 prints it with the rate 10.0 and the
\* interval given.
ScenarioYields(interval) ==
    /\ df_meds.data[2][1] = Num(5)
    /\ result.list[2].N = <<"5">>
    /\ result.list[2].Rate = <<"1", "0", ".", "0">>
    /\ result.list[2].CI = interval

\* C24 as stated: for a jurisdiction whose count cell is the sentinel
\* "10 or fewer" and whose total is 50, the pipeline yields count 5, rate
\* 10.0% and a Wilson 95% interval that rounds to (4.4%, 21.4%) at one
\* decimal.
C24_IntervalRoundsTo44 ==
    (pc = "scenario_table2" /\ SentinelOfFifty) =>
        ScenarioYields(<<"(", "4", ".", "4", "-", "2", "1", ".", "4", ")">>)

\* C24 amended: for that jurisdiction the pipeline yields count 5, rate
\* 10.0% and a Wilson 95% interval that rounds to (4.3%, 21.4%) at one
\* decimal; and a sentinel cell gives, with any total, the row of the count
\* 5.
C24_IntervalRoundsTo43 ==
    pc = "scenario_table2" =>
        /\ SentinelOfFifty =>
               ScenarioYields(<<"(", "4", ".", "3", "-", "2", "1", ".", "4", ")">>)
        /\ df.data[2][1] = Str(SMALL_CELL_VALUE) =>
               result = List(create_table2(ScenarioTable(Num(5), df.data[3][1].num),
                                           df_procs))

\* Table 2 was made of the jurisdiction with the sentinel and the total 50.
C24_Witness ==
    /\ pc = "scenario_table2"
    /\ SentinelOfFifty
    /\ result.list[2].Treatment = "Carbamazepine/Oxcarbazepine"
    /\ result.list[2].N = <<"5">>

(***************************************************************************)
(* Claims about the forward fill, checked under SpecFill.                  *)
(***************************************************************************)
\* The rows above row i that have a name.
NamedAbove(series, i) == {j \in 1..(i - 1) : ~IsNaN(series[j])}

\* The largest number of a non-empty set of row numbers.
Nearest(S) == CHOOSE j \in S : \A k \in S : k <= j

\* C26: after clean_medication_data or clean_procedure_data every row whose
\* jurisdiction cell was blank carries the name of the nearest row above it
\* that had a name, every row that had a name keeps it, rows above the first
\* named row stay blank, and the number and the order of the rows are what
\* they were.
C26_ForwardFill ==
    pc \in {"medication_cleaned", "procedure_cleaned"} =>
        LET before == GetColumn(df, STATE_COL)
            after  == GetColumn(result, STATE_COL)
        IN  /\ Len(after) = Len(before)
            /\ \A i \in DOMAIN before :
                   after[i] = IF ~IsNaN(before[i]) THEN before[i]
                              ELSE IF NamedAbove(before, i) = {} THEN NaN
                              ELSE before[Nearest(NamedAbove(before, i))]
            /\ result.data[Len(result.data)] = df.data[Len(df.data)]

\* An export of three rows or more was cleaned in which a blank cell lies
\* below two different names, and it took the nearer one.
C26_Witness ==
    /\ pc = "medication_cleaned"
    /\ LET before == GetColumn(df, STATE_COL)
       IN  /\ Len(before) >= 3
           /\ before[1] = Str("Alabama")
           /\ before[2] = Str("Alaska")
           /\ IsNaN(before[3])
           /\ GetColumn(result, STATE_COL)[3] = Str("Alaska")

(***************************************************************************)
(* Claims about the caller's table and the shared tables, checked under    *)
(* SpecFrame.                                                              *)
(***************************************************************************)
\* C27: no core operation changes its input or the shared configuration:
\* after any sequence of calls of impute_small_cells, clean_column_names,
\* add_census_region, clean_medication_data, clean_procedure_data,
\* calculate_percentages, create_table_per_capita and the state bar chart
\* functions, the table the caller passed is column for column and cell for
\* cell what it was, and STATE_TO_REGION, CENSUS_REGIONS and the population
\* table are what they were.
C27_InputsUnchanged ==
    /\ df = args.passed
    /\ STATE_TO_REGION = ImportedStateToRegion
    /\ args.CENSUS_REGIONS = CENSUS_REGIONS
    /\ args.US_STATE_POPULATIONS = US_STATE_POPULATIONS

\* impute_small_cells returned a table in which 5 stands where the caller's
\* table holds the sentinel.
C27_Witness ==
    /\ pc = "returned"
    /\ args.op = "impute_small_cells"
    /\ GetColumn(df, "count")[1] = Str(SMALL_CELL_VALUE)
    /\ GetColumn(result, "count")[1] = Num(5)
    /\ result2 = result

(***************************************************************************)
(* Claims about the population tables, checked under SpecPopulations.      *)
(***************************************************************************)
\* The table t has exactly the jurisdictions of STATE_TO_REGION as keys and
\* a positive integer for each.
DescribesRoster(t) ==
    /\ DOMAIN t = DOMAIN STATE_TO_REGION
    /\ \A st \in DOMAIN t : t[st] \in Nat \ {0}

\* C28: the population table and the region roster describe the same
\* jurisdictions: the keys of US_STATE_POPULATIONS are the 51 keys of
\* STATE_TO_REGION, every population is a positive integer, and the copy of
\* the table in generate_publication_materials.py has the keys and values
\* of the one in src/data/us_state_populations.py; so every jurisdiction
\* that is assigned a region has a positive per-capita denominator.
C28_PopulationsMatchRoster ==
    /\ Cardinality(DOMAIN STATE_TO_REGION) = 51
    /\ DescribesRoster(data_US_STATE_POPULATIONS)
    /\ DescribesRoster(US_STATE_POPULATIONS)
    /\ US_STATE_POPULATIONS = data_US_STATE_POPULATIONS
    /\ pc = "population" =>
           /\ IF IsNaN(result2.population) THEN result = None
              ELSE result = result2.population
           /\ IsStr(result2.census_region) => (IsNum(result) /\ result.num > 0)

\* The District of Columbia was looked up: it has a region and a population.
C28_Witness ==
    /\ pc = "population"
    /\ args.state = "District of Columbia"
    /\ result2.census_region = Str("South Atlantic")
    /\ result = Num(678972)

(***************************************************************************)
(* Claims about validate_totals, checked under SpecTotals.                 *)
(***************************************************************************)
\* The number a cell counts for: its number, the number its text reads as,
\* nothing otherwise.
CountsFor(cell) ==
    IF IsNum(cell) THEN cell.num
    ELSE IF IsStr(cell) /\ IsNumeral(cell.str) THEN ParseNumeral(cell.str)
    ELSE 0

\* The sum of the cells of the listed columns that the table has.
ListedSum(d, listed) ==
    LET cells == {<<j, i>> \in (DOMAIN listed) \X (1..Len(d.data[1])) :
                      HasColumn(d, listed[j])}
    IN  IF cells = {} THEN 0
        ELSE LET count[S \in SUBSET cells] ==
                     IF S = {} THEN 0
                     ELSE LET c == CHOOSE c \in S : TRUE
                          IN  CountsFor(GetColumn(d, listed[c[1]])[c[2]])
                                  + count[S \ {c}]
             IN  count[cells]

\* The calculated total differs from the expected one by more than the
\* tolerance fraction of the expected total.
BeyondTolerance(calculated, expected, tolerance) ==
    Abs(calculated - expected) * tolerance.den > tolerance.num * expected

\* C29: validate_totals reports the table as invalid whenever an expected
\* total is given and the calculated total, the sum of the listed value
\* columns that exist with the non-numeric cells counted as nothing,
\* differs from it by more than the tolerance fraction of the expected
\* total, for every expected total, 0 included; it reports valid when no
\* expected total is given; and calculated_total is always that sum.
C29_InvalidBeyondTolerance ==
    pc = "validated" =>
        /\ result.results.calculated_total = ListedSum(df, columns.list)
        /\ args.expected_total = None => result.is_valid
        /\ (/\ args.expected_total # None
            /\ BeyondTolerance(ListedSum(df, columns.list),
                               args.expected_total.num, args.tolerance))
               => ~result.is_valid

(***************************************************************************)
(* Claims about check_missing_states, checked under SpecMissing.           *)
(***************************************************************************)
\* The names that occur in the state column; a blank cell is no name.
NamesPresent(d) ==
    {GetColumn(d, "state")[i].str :
        i \in {j \in DOMAIN GetColumn(d, "state") : IsStr(GetColumn(d, "state")[j])}}

\* The place of a jurisdiction in the alphabetical order of the roster.
AlphabeticalRank(st) == CHOOSE i \in DOMAIN SortedStates : SortedStates[i] = st

\* C30: check_missing_states returns exactly the jurisdictions of the roster
\* of 51 names that do not occur in the state column of the table, in
\* ascending alphabetical order and without duplicates; the list is empty
\* exactly when all 51 occur; a blank cell counts as absent, and a name of
\* the table that is not in the roster is neither reported nor counted as
\* covering a jurisdiction of the roster.
C30_MissingStates ==
    pc = "roster_checked" =>
        LET missing == result.list
        IN  /\ Cardinality(DOMAIN STATE_TO_REGION) = 51
            /\ {missing[i] : i \in DOMAIN missing}
                   = DOMAIN STATE_TO_REGION \ NamesPresent(df)
            /\ \A i, j \in DOMAIN missing :
                   i < j => AlphabeticalRank(missing[i]) < AlphabeticalRank(missing[j])
            /\ (missing = <<>>) <=> (DOMAIN STATE_TO_REGION \subseteq NamesPresent(df))

\* A table with a blank cell, a territory and 'alabama' in lower case that
\* lacks Wyoming and Alabama was checked: the two are reported, Alabama
\* first.
C30_Witness ==
    /\ pc = "roster_checked"
    /\ result.list = <<"Alabama", "Wyoming">>
    /\ \E i \in DOMAIN GetColumn(df, "state") : IsNaN(GetColumn(df, "state")[i])
    /\ Str("alabama") \in Range(GetColumn(df, "state"))

====
